---- MODULE Spec2Model ----
(***************************************************************************)
(* crypto_watch backend: request admission (API key validation and the     *)
(* fixed-window rate limiter), the bounded-retry upstream price fetcher    *)
(* and the cache-then-fetch-then-stale-fallback flow of the API handler.   *)
(*                                                                         *)
(* Every request is one invocation of the handler; the hosting runtime     *)
(* runs invocations concurrently, so each process below is one invocation  *)
(* and every store call (one DynamoDB round trip) is one atomic step.      *)
(***************************************************************************)
EXTENDS Integers, Sequences, FiniteSets, TLC

(***************************************************************************)
(* Bounds of the model.                                                    *)
(***************************************************************************)
\* RATE_LIMIT_PER_MINUTE as configured for the model (the code's default is
\* 100, auth.py:28; the integration test configures 3).
rate_limit_per_minute == 2
\* Requests started in one behaviour of the admission specifications.
MaxRequests == 4
\* Last second of the clock in the admission specifications.
MaxTime == 90

Procs == {"p1", "p2"}

\* Python's None.
None == [none |-> TRUE]

(***************************************************************************)
(* The table: API key items (provisioned out of band, never written by     *)
(* the backend) and the tokens a request can present.                      *)
(***************************************************************************)
NoHeader == "<None>"
Tokens == {NoHeader, "", "kx", "kd", "k1", "k2"}

\* The provisioned keys: items with PK = APIKEY#<key_id>, SK = METADATA.
KeyIds == {"k1", "k2", "kd"}
Minutes == 0 .. (MaxTime \div 60)

\* The symbols of the model, three of SUPPORTED_SYMBOLS.
Symbols == {"BTC", "ETH", "ADA"}

VARIABLES
    api_keys,         \* items with SK = METADATA under APIKEY#<key_id>: [key] -> item
    now,              \* the clock, in seconds (time.time(), datetime.utcnow())
    rate_limits,      \* items with SK = RATELIMIT#<minute>: [key][minute] -> item or None
    pc,               \* where each invocation stands
    api_key,          \* the header value the invocation presented
    api_key_data,     \* validate_api_key's result (local)
    rate_limit_data,  \* check_rate_limit's local RateLimit object
    read_count,       \* the count check_rate_limit read (absent reads as 0)
    outcome,          \* how the invocation ended
    calls,            \* the store calls the invocation made, in order
    admitted,         \* [key][minute] -> number of admitted requests
    requests,         \* requests started so far
    fetch_symbols,    \* fetch_prices' argument `symbols`
    attempt,          \* fetch_prices' loop variable
    last_error,       \* fetch_prices' last_error
    events,           \* the HTTP attempts and the sleeps of the call, in order
    fetch_result,     \* what fetch_prices returned or raised
    prices,           \* items with PK = PRICE#<symbol>: [symbol] -> item or None
    symbols,          \* the handler's parsed symbol list
    cache_status,     \* the handler's cache_status dict
    fresh_symbols,    \* the handler's fresh_symbols
    stale_symbols,    \* the handler's stale_symbols
    price_data_list,  \* the handler's price_data_list
    response          \* the handler's return value

authVars == <<api_keys, now, rate_limits, pc, api_key, api_key_data, rate_limit_data,
              read_count, outcome, calls, admitted, requests>>

fetchVars == <<fetch_symbols, attempt, last_error, events, fetch_result>>

apiVars == <<prices, symbols, cache_status, fresh_symbols, stale_symbols,
             price_data_list, response>>

\* What admission never touches.
nonAuthVars == <<fetchVars, apiVars>>

vars == <<authVars, fetchVars, apiVars>>

(***************************************************************************)
(* shared/models.py                                                        *)
(***************************************************************************)
\* RateLimit.to_dynamodb_item: the attributes stored under the item's key.
RateLimit_to_dynamodb_item(rl) ==
    [PK |-> <<"APIKEY", rl.api_key>>, SK |-> <<"RATELIMIT", rl.minute>>,
     requestCount |-> rl.request_count, ttl |-> rl.ttl]

\* RateLimit.from_dynamodb_item: key and minute come back out of PK and SK.
RateLimit_from_dynamodb_item(item) ==
    [api_key |-> item.PK[2], minute |-> item.SK[2],
     request_count |-> item.requestCount, ttl |-> item.ttl]

\* APIKey.from_dynamodb_item
APIKey_from_dynamodb_item(item) ==
    [key_id |-> item.keyId, enabled |-> item.enabled]

(***************************************************************************)
(* shared/db.py: a failed call (ClientError) reads as None, writes nothing *)
(***************************************************************************)
get_api_key(key_id, ok) ==
    IF ok /\ key_id \in DOMAIN api_keys
    THEN APIKey_from_dynamodb_item(api_keys[key_id])
    ELSE None

\* Mutant: without a counter for the minute, the read answers with the
\* counter of the minute before.
get_rate_limit_previous_window(key, minute, ok) ==
    IF ok /\ rate_limits[key][minute] # None
    THEN RateLimit_from_dynamodb_item(rate_limits[key][minute])
    ELSE IF ok /\ minute - 1 \in Minutes /\ rate_limits[key][minute - 1] # None
    THEN [RateLimit_from_dynamodb_item(rate_limits[key][minute - 1]) EXCEPT !.minute = minute]
    ELSE None

get_rate_limit(key, minute, ok) ==
    IF ok /\ rate_limits[key][minute] # None
    THEN RateLimit_from_dynamodb_item(rate_limits[key][minute])
    ELSE None

\* Mutant: an atomic increment of the stored count (ADD requestCount 1)
\* instead of a put of the count computed from the earlier read.
save_rate_limit_atomic(rl, ok) ==
    IF ok
    THEN [rate_limits EXCEPT ![rl.api_key][rl.minute] =
            IF @ = None THEN RateLimit_to_dynamodb_item(rl)
            ELSE [@ EXCEPT !.requestCount = @ + 1]]
    ELSE rate_limits

\* The table after save_rate_limit: put_item replaces the item of the same key.
save_rate_limit(rl, ok) ==
    IF ok
    THEN [rate_limits EXCEPT ![rl.api_key][rl.minute] = RateLimit_to_dynamodb_item(rl)]
    ELSE rate_limits

(***************************************************************************)
(* shared/auth.py                                                          *)
(***************************************************************************)
\* datetime.utcnow().strftime('%Y%m%d%H%M'): the minute the clock is in.
current_minute(t) == t \div 60

\* `if not api_key`: None and the empty string are both falsy.
Falsy(tok) == tok = NoHeader \/ tok = ""

\* Mutant: the comparison is > instead of >=.
LimitExceeded_gt(count) == count > rate_limit_per_minute

LimitExceeded(count) == count >= rate_limit_per_minute

\* Mutant: the increment adds two.
Incremented_twice(rl) == [rl EXCEPT !.request_count = @ + 2]

Incremented(rl) == [rl EXCEPT !.request_count = @ + 1]

\* Mutant: a counter is created at zero.
NewRateLimit_zero(key, minute, t) ==
    [api_key |-> key, minute |-> minute, request_count |-> 0, ttl |-> t + 3600]

\* Mutant: the new counter expires an hour after the start of its window.
NewRateLimit_window_start(key, minute, t) ==
    [api_key |-> key, minute |-> minute, request_count |-> 1, ttl |-> minute * 60 + 3600]

NewRateLimit(key, minute, t) ==
    [api_key |-> key, minute |-> minute, request_count |-> 1, ttl |-> t + 3600]

RateLimitError == [error |-> "RateLimitError", retry_after |-> 60]
AuthenticationError(msg) == [error |-> "AuthenticationError", message |-> msg]
Admitted == [error |-> "none"]
Pending == [error |-> "pending"]

CountOf(data) == IF data = None THEN 0 ELSE data.request_count

\* A new invocation presents a token.
Request(p, tok) ==
    /\ pc[p] \in {"idle", "done"}
    /\ requests < MaxRequests
    /\ requests' = requests + 1
    /\ pc' = [pc EXCEPT ![p] = "validate_api_key"]
    /\ api_key' = [api_key EXCEPT ![p] = tok]
    /\ api_key_data' = [api_key_data EXCEPT ![p] = None]
    /\ rate_limit_data' = [rate_limit_data EXCEPT ![p] = None]
    /\ read_count' = [read_count EXCEPT ![p] = 0]
    /\ outcome' = [outcome EXCEPT ![p] = Pending]
    /\ calls' = [calls EXCEPT ![p] = <<>>]
    /\ UNCHANGED <<api_keys, now, rate_limits, admitted>>
    /\ UNCHANGED nonAuthVars

Raise(p, err) ==
    /\ pc' = [pc EXCEPT ![p] = "done"]
    /\ outcome' = [outcome EXCEPT ![p] = err]

\* Mutant: validation does not stop at a disabled key.
validate_api_key_ignores_enabled(p, ok) ==
    /\ pc[p] = "validate_api_key"
    /\ IF Falsy(api_key[p])
       THEN /\ Raise(p, AuthenticationError("Missing API key"))
            /\ UNCHANGED <<api_key_data, calls>>
       ELSE LET data == get_api_key(api_key[p], ok) IN
            /\ calls' = [calls EXCEPT ![p] = Append(@, "get_api_key")]
            /\ IF data = None
               THEN /\ Raise(p, AuthenticationError("Invalid API key"))
                    /\ UNCHANGED api_key_data
               ELSE /\ api_key_data' = [api_key_data EXCEPT ![p] = data]
                    /\ pc' = [pc EXCEPT ![p] = "check_rate_limit"]
                    /\ UNCHANGED outcome
    /\ UNCHANGED <<api_keys, now, rate_limits, api_key, rate_limit_data, read_count,
                   admitted, requests>>
    /\ UNCHANGED nonAuthVars

validate_api_key(p, ok) ==
    /\ pc[p] = "validate_api_key"
    /\ IF Falsy(api_key[p])
       THEN /\ Raise(p, AuthenticationError("Missing API key"))
            /\ UNCHANGED <<api_key_data, calls>>
       ELSE LET data == get_api_key(api_key[p], ok) IN
            /\ calls' = [calls EXCEPT ![p] = Append(@, "get_api_key")]
            /\ IF data = None
               THEN /\ Raise(p, AuthenticationError("Invalid API key"))
                    /\ UNCHANGED api_key_data
               ELSE IF ~data.enabled
               THEN /\ Raise(p, AuthenticationError("API key is disabled"))
                    /\ UNCHANGED api_key_data
               ELSE /\ api_key_data' = [api_key_data EXCEPT ![p] = data]
                    /\ pc' = [pc EXCEPT ![p] = "check_rate_limit"]
                    /\ UNCHANGED outcome
    /\ UNCHANGED <<api_keys, now, rate_limits, api_key, rate_limit_data, read_count,
                   admitted, requests>>
    /\ UNCHANGED nonAuthVars

\* Mutant: a rejected request is counted too (the increment and the save
\* come before the comparison).
check_rate_limit_counts_rejected(p, ok) ==
    /\ pc[p] = "check_rate_limit"
    /\ LET key == api_key_data[p].key_id
           minute == current_minute(now)
           data == get_rate_limit(key, minute, ok)
       IN /\ calls' = [calls EXCEPT ![p] = Append(@, "get_rate_limit")]
          /\ read_count' = [read_count EXCEPT ![p] = CountOf(data)]
          /\ IF data # None
             THEN IF LimitExceeded(data.request_count)
                  THEN /\ Raise(p, RateLimitError)
                       /\ rate_limits' = save_rate_limit(Incremented(data), ok)
                       /\ UNCHANGED rate_limit_data
                  ELSE /\ rate_limit_data' =
                             [rate_limit_data EXCEPT ![p] = Incremented(data)]
                       /\ pc' = [pc EXCEPT ![p] = "save_rate_limit"]
                       /\ UNCHANGED <<outcome, rate_limits>>
             ELSE /\ rate_limit_data' =
                        [rate_limit_data EXCEPT ![p] = NewRateLimit(key, minute, now)]
                  /\ pc' = [pc EXCEPT ![p] = "save_rate_limit"]
                  /\ UNCHANGED <<outcome, rate_limits>>
    /\ UNCHANGED <<api_keys, now, api_key, api_key_data, admitted, requests>>
    /\ UNCHANGED nonAuthVars

\* Mutant: a read that fails rejects the call.
check_rate_limit_fails_closed(p, ok) ==
    /\ pc[p] = "check_rate_limit"
    /\ LET key == api_key_data[p].key_id
           minute == current_minute(now)
           data == get_rate_limit(key, minute, ok)
       IN /\ calls' = [calls EXCEPT ![p] = Append(@, "get_rate_limit")]
          /\ read_count' = [read_count EXCEPT ![p] = CountOf(data)]
          /\ IF ~ok \/ (data # None /\ LimitExceeded(data.request_count))
             THEN /\ Raise(p, RateLimitError)
                  /\ UNCHANGED rate_limit_data
             ELSE /\ rate_limit_data' =
                        [rate_limit_data EXCEPT ![p] =
                            IF data # None THEN Incremented(data)
                            ELSE NewRateLimit(key, minute, now)]
                  /\ pc' = [pc EXCEPT ![p] = "save_rate_limit"]
                  /\ UNCHANGED outcome
    /\ UNCHANGED <<api_keys, now, rate_limits, api_key, api_key_data, admitted, requests>>
    /\ UNCHANGED nonAuthVars

\* check_rate_limit up to its save: the read, the comparison and the
\* increment of the local object.
check_rate_limit(p, ok) ==
    /\ pc[p] = "check_rate_limit"
    /\ LET key == api_key_data[p].key_id
           minute == current_minute(now)
           data == get_rate_limit(key, minute, ok)
       IN /\ calls' = [calls EXCEPT ![p] = Append(@, "get_rate_limit")]
          /\ read_count' = [read_count EXCEPT ![p] = CountOf(data)]
          /\ IF data # None
             THEN IF LimitExceeded(data.request_count)
                  THEN /\ Raise(p, RateLimitError)
                       /\ UNCHANGED rate_limit_data
                  ELSE /\ rate_limit_data' =
                             [rate_limit_data EXCEPT ![p] = Incremented(data)]
                       /\ pc' = [pc EXCEPT ![p] = "save_rate_limit"]
                       /\ UNCHANGED outcome
             ELSE /\ rate_limit_data' =
                        [rate_limit_data EXCEPT ![p] = NewRateLimit(key, minute, now)]
                  /\ pc' = [pc EXCEPT ![p] = "save_rate_limit"]
                  /\ UNCHANGED outcome
    /\ UNCHANGED <<api_keys, now, rate_limits, api_key, api_key_data, admitted, requests>>
    /\ UNCHANGED nonAuthVars

\* Mutant: a save that fails turns the call into an error.
check_rate_limit_save_checks_result(p, ok) ==
    /\ pc[p] = "save_rate_limit"
    /\ calls' = [calls EXCEPT ![p] = Append(@, "save_rate_limit")]
    /\ rate_limits' = save_rate_limit(rate_limit_data[p], ok)
    /\ admitted' = IF ok
                   THEN [admitted EXCEPT
                           ![rate_limit_data[p].api_key][rate_limit_data[p].minute] = @ + 1]
                   ELSE admitted
    /\ pc' = [pc EXCEPT ![p] = "done"]
    /\ outcome' = [outcome EXCEPT ![p] =
                      IF ok THEN Admitted ELSE [error |-> "DatabaseError"]]
    /\ UNCHANGED <<api_keys, now, api_key, api_key_data, rate_limit_data, read_count, requests>>
    /\ UNCHANGED nonAuthVars

\* Mutant: the admission is granted without the counter being put.
check_rate_limit_save_skips_put(p, ok) ==
    /\ pc[p] = "save_rate_limit"
    /\ calls' = [calls EXCEPT ![p] = Append(@, "save_rate_limit")]
    /\ admitted' = [admitted EXCEPT
                      ![rate_limit_data[p].api_key][rate_limit_data[p].minute] = @ + 1]
    /\ pc' = [pc EXCEPT ![p] = "done"]
    /\ outcome' = [outcome EXCEPT ![p] = Admitted]
    /\ UNCHANGED <<api_keys, now, rate_limits, api_key, api_key_data, rate_limit_data,
                   read_count, requests>>
    /\ UNCHANGED nonAuthVars

\* The save that ends check_rate_limit; authenticate_request then returns.
check_rate_limit_save(p, ok) ==
    /\ pc[p] = "save_rate_limit"
    /\ calls' = [calls EXCEPT ![p] = Append(@, "save_rate_limit")]
    /\ rate_limits' = save_rate_limit(rate_limit_data[p], ok)
    /\ admitted' = [admitted EXCEPT
                      ![rate_limit_data[p].api_key][rate_limit_data[p].minute] = @ + 1]
    /\ pc' = [pc EXCEPT ![p] = "done"]
    /\ outcome' = [outcome EXCEPT ![p] = Admitted]
    /\ UNCHANGED <<api_keys, now, api_key, api_key_data, rate_limit_data, read_count, requests>>
    /\ UNCHANGED nonAuthVars

\* The clock.
Tick(d) ==
    /\ now + d <= MaxTime
    /\ now' = now + d
    /\ UNCHANGED <<api_keys, rate_limits, pc, api_key, api_key_data, rate_limit_data,
                   read_count, outcome, calls, admitted, requests>>
    /\ UNCHANGED nonAuthVars

\* Soft revoke, done out of band: enabled -> disabled, never deleted.
Revoke(k) ==
    /\ api_keys[k].enabled
    /\ api_keys' = [api_keys EXCEPT ![k].enabled = FALSE]
    /\ UNCHANGED <<now, rate_limits, pc, api_key, api_key_data, rate_limit_data,
                   read_count, outcome, calls, admitted, requests>>
    /\ UNCHANGED nonAuthVars

\* The state after construction: no counter, no price item, nothing running.
Init ==
    /\ api_keys = [k \in KeyIds |-> [keyId |-> k, enabled |-> (k # "kd")]]
    /\ now = 0
    /\ rate_limits = [k \in KeyIds |-> [m \in Minutes |-> None]]
    /\ pc = [p \in Procs |-> "idle"]
    /\ api_key = [p \in Procs |-> NoHeader]
    /\ api_key_data = [p \in Procs |-> None]
    /\ rate_limit_data = [p \in Procs |-> None]
    /\ read_count = [p \in Procs |-> 0]
    /\ outcome = [p \in Procs |-> Pending]
    /\ calls = [p \in Procs |-> <<>>]
    /\ admitted = [k \in KeyIds |-> [m \in Minutes |-> 0]]
    /\ requests = 0
    /\ fetch_symbols = [p \in Procs |-> <<>>]
    /\ attempt = [p \in Procs |-> 0]
    /\ last_error = [p \in Procs |-> None]
    /\ events = [p \in Procs |-> <<>>]
    /\ fetch_result = [p \in Procs |-> None]
    /\ prices = [sym \in Symbols |-> None]
    /\ symbols = [p \in Procs |-> <<>>]
    /\ cache_status = [p \in Procs |-> <<>>]
    /\ fresh_symbols = [p \in Procs |-> <<>>]
    /\ stale_symbols = [p \in Procs |-> <<>>]
    /\ price_data_list = [p \in Procs |-> <<>>]
    /\ response = [p \in Procs |-> None]

AuthNext ==
    \/ \E p \in Procs, tok \in Tokens : Request(p, tok)
    \/ \E p \in Procs : validate_api_key(p, TRUE)
    \/ \E p \in Procs : check_rate_limit(p, TRUE)
    \/ \E p \in Procs : check_rate_limit_save(p, TRUE)
    \/ \E k \in {"k2"} : Revoke(k)
    \/ Tick(30)

SpecAuth == Init /\ [][AuthNext]_vars

(***************************************************************************)
(* Properties of the rate limiter and of admission                         *)
(***************************************************************************)
Range(seq) == { seq[i] : i \in DOMAIN seq }

StoredCount(k, m) ==
    IF rate_limits[k][m] = None THEN 0 ELSE rate_limits[k][m].requestCount

\* The invocation went through check_rate_limit's read.
Checked(p) == "get_rate_limit" \in Range(calls[p])

\* C1: check_rate_limit admits a request if and only if the count it read
\* (an absent counter reads as 0) is below the limit, and an admitted
\* request saves the count it read plus one: reading limit-1 is admitted
\* and writes limit, reading limit or more is rejected.
C1_AdmitIffBelowLimit ==
    \A p \in Procs :
        /\ pc[p] = "save_rate_limit" =>
              /\ read_count[p] < rate_limit_per_minute
              /\ rate_limit_data[p].request_count = read_count[p] + 1
        /\ (pc[p] = "done" /\ Checked(p)) =>
              /\ outcome[p] = Admitted <=> read_count[p] < rate_limit_per_minute
              /\ outcome[p] = RateLimitError <=> read_count[p] >= rate_limit_per_minute
              /\ outcome[p] = Admitted =>
                    rate_limit_data[p].request_count = read_count[p] + 1

\* One request read limit-1, was admitted and stored limit; the next one
\* read limit and was rejected.
C1_Witness ==
    \E p, q \in Procs :
        /\ p # q /\ pc[p] = "done" /\ pc[q] = "done"
        /\ outcome[p] = Admitted /\ read_count[p] = rate_limit_per_minute - 1
        /\ StoredCount(rate_limit_data[p].api_key, rate_limit_data[p].minute)
              = rate_limit_per_minute
        /\ outcome[q] = RateLimitError /\ read_count[q] = rate_limit_per_minute
        /\ api_key[q] = api_key[p]

\* C2: a rejected check_rate_limit call raises RateLimitError with
\* retry_after = 60 and writes nothing: the step that rejects leaves every
\* stored counter as it was and the call never reaches save_rate_limit.
C2_RejectWritesNothing ==
    [][\A p \in Procs :
         (pc[p] = "check_rate_limit" /\ pc'[p] = "done") =>
             /\ outcome'[p] = [error |-> "RateLimitError", retry_after |-> 60]
             /\ rate_limits' = rate_limits
             /\ admitted' = admitted
             /\ "save_rate_limit" \notin Range(calls'[p])]_vars

\* A request was rejected while the stored count stood at the limit.
C2_Witness ==
    \E p \in Procs :
        /\ pc[p] = "done" /\ outcome[p] = RateLimitError
        /\ StoredCount(api_key[p], current_minute(now)) = rate_limit_per_minute
        /\ read_count[p] = rate_limit_per_minute

\* C3: authenticate_request stops at the first failing step: a missing
\* token fails as 'Missing API key' with no store call at all, an unknown
\* token as 'Invalid API key', a disabled key as 'API key is disabled',
\* and in all three cases the rate limiter is neither read nor written, so
\* every counter is unchanged; only an enabled key reaches check_rate_limit.
C3_ShortCircuit ==
    [][\A p \in Procs :
         /\ (pc[p] = "validate_api_key" /\ pc'[p] = "done") =>
               /\ rate_limits' = rate_limits
               /\ admitted' = admitted
               /\ Range(calls'[p]) \subseteq {"get_api_key"}
               /\ Falsy(api_key[p]) =>
                     /\ outcome'[p] = AuthenticationError("Missing API key")
                     /\ calls'[p] = <<>>
               /\ (~Falsy(api_key[p]) /\ api_key[p] \notin KeyIds) =>
                     outcome'[p] = AuthenticationError("Invalid API key")
               /\ (api_key[p] \in KeyIds /\ ~api_keys[api_key[p]].enabled) =>
                     outcome'[p] = AuthenticationError("API key is disabled")
         /\ pc'[p] \in {"check_rate_limit", "save_rate_limit"} =>
               /\ api_key'[p] \in KeyIds
               /\ api_key_data'[p].enabled]_vars

\* A revoked key whose counter already stands at the limit was turned away
\* as disabled, the counter still at the limit.
C3_Witness ==
    \E p \in Procs :
        /\ pc[p] = "done"
        /\ outcome[p] = AuthenticationError("API key is disabled")
        /\ calls[p] = <<"get_api_key">>
        /\ StoredCount(api_key[p], current_minute(now)) = rate_limit_per_minute

\* C8 (as claimed): no step lowers the stored count of any (key, minute).
C8_CountNeverDecreases ==
    [][\A k \in KeyIds, m \in Minutes :
         (IF rate_limits'[k][m] = None THEN 0 ELSE rate_limits'[k][m].requestCount)
            >= StoredCount(k, m)]_vars

\* C9: the increment is a read followed by a put of the count read plus
\* one: every save sets the stored count to what that call read plus one,
\* whatever the counter holds by then, so two calls that both read N both
\* write N+1 and the counter never exceeds the number of admissions.
C9_LostUpdate ==
    [][\A p \in Procs :
         (pc[p] = "save_rate_limit" /\ pc'[p] = "done") =>
            LET k == rate_limit_data[p].api_key
                m == rate_limit_data[p].minute
            IN /\ outcome'[p] = Admitted
               /\ rate_limits'[k][m].requestCount = read_count[p] + 1
               /\ admitted'[k][m] = admitted[k][m] + 1
               /\ rate_limits'[k][m].requestCount <= admitted'[k][m]]_vars

\* Two calls read the same count N, both were admitted, the counter holds
\* N+1, and the window has admitted more requests than the limit.
C9_Witness ==
    \E p, q \in Procs :
        /\ p # q /\ pc[p] = "done" /\ pc[q] = "done"
        /\ outcome[p] = Admitted /\ outcome[q] = Admitted
        /\ rate_limit_data[p].api_key = rate_limit_data[q].api_key
        /\ rate_limit_data[p].minute = rate_limit_data[q].minute
        /\ read_count[p] = read_count[q]
        /\ StoredCount(rate_limit_data[p].api_key, rate_limit_data[p].minute)
              = read_count[p] + 1
        /\ admitted[rate_limit_data[p].api_key][rate_limit_data[p].minute]
              > rate_limit_per_minute

\* C10: the stored count of a counter never exceeds the limit.
C10_CountAtMostLimit ==
    \A k \in KeyIds, m \in Minutes : StoredCount(k, m) <= rate_limit_per_minute

\* A counter stands at the limit while requests keep being rejected and
\* more requests than the limit were admitted by interleaving.
C10_Witness ==
    \E p \in Procs, k \in KeyIds, m \in Minutes :
        /\ StoredCount(k, m) = rate_limit_per_minute
        /\ pc[p] = "done" /\ outcome[p] = RateLimitError /\ api_key[p] = k
        /\ current_minute(now) = m

(***************************************************************************)
(* shared/external_api.py: ExternalAPIClient.fetch_prices                  *)
(***************************************************************************)
MAX_RETRIES == 3
RETRY_DELAYS_linear == <<1, 2, 3>>
RETRY_DELAYS == <<1, 2, 4>>

SYMBOL_MAPPING(symbol) ==
    CASE symbol = "BTC" -> "bitcoin"
      [] symbol = "ETH" -> "ethereum"
      [] symbol = "ADA" -> "cardano"

ExternalIds == { SYMBOL_MAPPING(sym) : sym \in Symbols }

\* The `symbols` arguments: one to three symbols, in any order.
SymbolLists ==
    { q \in UNION { [1..n -> Symbols] : n \in 1..3 } :
        \A i, j \in DOMAIN q : i # j => q[i] # q[j] }

Prices == {100, 200}

\* What the provider can send for one coin: a numeric price, an entry
\* without 'usd', a null price, a price that is not a number.
CoinData ==
    { [usd |-> [json |-> "number", v |-> v]] : v \in Prices } \cup
    { [usd_24h_change |-> [json |-> "number", v |-> 0]],
      [usd |-> [json |-> "null", v |-> 0]],
      [usd |-> [json |-> "string", v |-> 0]] }

\* One price per body keeps the bodies few: every priced coin of a body
\* carries the same number.
Bodies ==
    { d \in UNION { [ids -> CoinData] : ids \in SUBSET ExternalIds } :
        \A i, j \in DOMAIN d :
            ("usd" \in DOMAIN d[i] /\ "usd" \in DOMAIN d[j]
               /\ d[i].usd.json = "number" /\ d[j].usd.json = "number")
            => d[i].usd.v = d[j].usd.v }

\* What one requests.get, raise_for_status and response.json() can yield.
Responses ==
    { [kind |-> "Timeout"], [kind |-> "RequestException"], [kind |-> "ValueError"] }
    \cup { [kind |-> "json", data |-> d] : d \in Bodies }

CryptoPrice(symbol, price, t) ==
    [symbol |-> symbol, price |-> price, last_updated |-> t]

\* Mutant: each record is put in front of the list.
RECURSIVE TransformFrom_reversed(_, _, _, _)
TransformFrom_reversed(data, requested, t, out) ==
    IF requested = <<>>
    THEN IF out = <<>> THEN [raised |-> "ValueError"] ELSE [prices |-> out]
    ELSE LET symbol == Head(requested)
             external_id == SYMBOL_MAPPING(symbol)
         IN IF external_id \notin DOMAIN data
            THEN TransformFrom_reversed(data, Tail(requested), t, out)
            ELSE IF "usd" \notin DOMAIN data[external_id]
            THEN TransformFrom_reversed(data, Tail(requested), t, out)
            ELSE IF data[external_id].usd.json = "null"
            THEN [raised |-> "TypeError"]
            ELSE IF data[external_id].usd.json = "string"
            THEN [raised |-> "ValueError"]
            ELSE TransformFrom_reversed(data, Tail(requested), t,
                     <<CryptoPrice(symbol, data[external_id].usd.v, t)>> \o out)

\* _transform_response: the requested symbols in order; a symbol missing
\* from the body or without 'usd' is skipped; float() of a null raises
\* TypeError, of a non-number ValueError; no record at all is a ValueError.
RECURSIVE TransformFrom(_, _, _, _)
TransformFrom(data, requested, t, out) ==
    IF requested = <<>>
    THEN IF out = <<>> THEN [raised |-> "ValueError"] ELSE [prices |-> out]
    ELSE LET symbol == Head(requested)
             external_id == SYMBOL_MAPPING(symbol)
         IN IF external_id \notin DOMAIN data
            THEN TransformFrom(data, Tail(requested), t, out)
            ELSE IF "usd" \notin DOMAIN data[external_id]
            THEN TransformFrom(data, Tail(requested), t, out)
            ELSE IF data[external_id].usd.json = "null"
            THEN [raised |-> "TypeError"]
            ELSE IF data[external_id].usd.json = "string"
            THEN [raised |-> "ValueError"]
            ELSE TransformFrom(data, Tail(requested), t,
                     Append(out, CryptoPrice(symbol, data[external_id].usd.v, t)))

_transform_response(data, requested_symbols, t) ==
    TransformFrom(data, requested_symbols, t, <<>>)

\* The try block of one attempt.
AttemptResult(resp, requested, t) ==
    IF resp.kind = "json" THEN _transform_response(resp.data, requested, t)
    ELSE [raised |-> resp.kind]

\* The except clauses: Timeout, RequestException, (ValueError, KeyError).
Caught(kind) == kind \in {"Timeout", "RequestException", "ValueError", "KeyError"}

ExternalAPIError(requested, err) ==
    [error |-> "ExternalAPIError",
     details |-> [attempts |-> MAX_RETRIES + 1, lastError |-> err, symbols |-> requested]]

AttemptEvent(result) == [kind |-> "attempt", result |-> result]
SleepEvent(delay) == [kind |-> "sleep", delay |-> delay]

\* A caller enters fetch_prices.
fetch_prices(p, requested) ==
    /\ pc[p] = "idle"
    /\ pc' = [pc EXCEPT ![p] = "fetch_attempt"]
    /\ fetch_symbols' = [fetch_symbols EXCEPT ![p] = requested]
    /\ attempt' = [attempt EXCEPT ![p] = 0]
    /\ last_error' = [last_error EXCEPT ![p] = None]
    /\ events' = [events EXCEPT ![p] = <<>>]
    /\ fetch_result' = [fetch_result EXCEPT ![p] = None]
    /\ UNCHANGED <<api_keys, now, rate_limits, api_key, api_key_data,
                   rate_limit_data, read_count, outcome, calls, admitted, requests>>
    /\ UNCHANGED apiVars

\* One pass through the try block.
fetch_attempt(p, resp) ==
    /\ pc[p] = "fetch_attempt"
    /\ LET r == AttemptResult(resp, fetch_symbols[p], now) IN
       IF "prices" \in DOMAIN r
       THEN /\ events' = [events EXCEPT ![p] = Append(@, AttemptEvent("ok"))]
            /\ fetch_result' = [fetch_result EXCEPT ![p] = r]
            /\ pc' = [pc EXCEPT ![p] = "fetch_return"]
            /\ UNCHANGED last_error
       ELSE IF Caught(r.raised)
       THEN /\ events' = [events EXCEPT ![p] = Append(@, AttemptEvent(r.raised))]
            /\ last_error' = [last_error EXCEPT ![p] = [raised |-> r.raised]]
            /\ pc' = [pc EXCEPT ![p] = "fetch_backoff"]
            /\ UNCHANGED fetch_result
       ELSE /\ events' = [events EXCEPT ![p] = Append(@, AttemptEvent(r.raised))]
            /\ fetch_result' = [fetch_result EXCEPT ![p] = [error |-> r.raised]]
            /\ pc' = [pc EXCEPT ![p] = "fetch_return"]
            /\ UNCHANGED last_error
    /\ UNCHANGED <<api_keys, now, rate_limits, api_key, api_key_data,
                   rate_limit_data, read_count, outcome, calls, admitted, requests>>
    /\ UNCHANGED <<fetch_symbols, attempt>>
    /\ UNCHANGED apiVars

\* Mutant: the sleep comes after every failed attempt, the last one too.
fetch_backoff_always_sleeps(p) ==
    /\ pc[p] = "fetch_backoff"
    /\ IF attempt[p] < MAX_RETRIES
       THEN /\ now' = now + RETRY_DELAYS[attempt[p] + 1]
            /\ events' = [events EXCEPT ![p] = Append(@, SleepEvent(RETRY_DELAYS[attempt[p] + 1]))]
            /\ attempt' = [attempt EXCEPT ![p] = @ + 1]
            /\ pc' = [pc EXCEPT ![p] = "fetch_attempt"]
            /\ UNCHANGED fetch_result
       ELSE /\ now' = now + RETRY_DELAYS[MAX_RETRIES]
            /\ events' = [events EXCEPT ![p] = Append(@, SleepEvent(RETRY_DELAYS[MAX_RETRIES]))]
            /\ fetch_result' = [fetch_result EXCEPT ![p] =
                                  ExternalAPIError(fetch_symbols[p], last_error[p].raised)]
            /\ pc' = [pc EXCEPT ![p] = "fetch_return"]
            /\ UNCHANGED attempt
    /\ UNCHANGED <<api_keys, rate_limits, api_key, api_key_data, rate_limit_data,
                   read_count, outcome, calls, admitted, requests>>
    /\ UNCHANGED <<fetch_symbols, last_error>>
    /\ UNCHANGED apiVars

\* After a failed attempt: sleep and go round again, or give up.
fetch_backoff(p) ==
    /\ pc[p] = "fetch_backoff"
    /\ IF attempt[p] < MAX_RETRIES
       THEN /\ now' = now + RETRY_DELAYS[attempt[p] + 1]
            /\ events' = [events EXCEPT ![p] = Append(@, SleepEvent(RETRY_DELAYS[attempt[p] + 1]))]
            /\ attempt' = [attempt EXCEPT ![p] = @ + 1]
            /\ pc' = [pc EXCEPT ![p] = "fetch_attempt"]
            /\ UNCHANGED fetch_result
       ELSE /\ fetch_result' = [fetch_result EXCEPT ![p] =
                                  ExternalAPIError(fetch_symbols[p], last_error[p].raised)]
            /\ pc' = [pc EXCEPT ![p] = "fetch_return"]
            /\ UNCHANGED <<now, events, attempt>>
    /\ UNCHANGED <<api_keys, rate_limits, api_key, api_key_data, rate_limit_data,
                   read_count, outcome, calls, admitted, requests>>
    /\ UNCHANGED <<fetch_symbols, last_error>>
    /\ UNCHANGED apiVars

FetchProcs == {"p1"}

FetchNext ==
    \/ \E p \in FetchProcs, requested \in SymbolLists : fetch_prices(p, requested)
    \/ \E p \in FetchProcs, resp \in Responses : fetch_attempt(p, resp)
    \/ \E p \in FetchProcs : fetch_backoff(p)

SpecFetch == Init /\ [][FetchNext]_vars

(***************************************************************************)
(* Properties of fetch_prices                                              *)
(***************************************************************************)
IsAttempt(e) == e.kind = "attempt"
IsSleep(e) == e.kind = "sleep"

AttemptsOf(ev) == SelectSeq(ev, IsAttempt)
SleepsOf(ev) == [i \in 1..Len(SelectSeq(ev, IsSleep)) |-> SelectSeq(ev, IsSleep)[i].delay]

\* The attempts that ended in an error the retry loop handles.
FailedAttempts(ev) ==
    Cardinality({ i \in DOMAIN ev : IsAttempt(ev[i]) /\ ev[i].result # "ok" })

\* Attempts and sleeps alternate, an attempt first.
Alternates(ev) ==
    \A i \in DOMAIN ev : IF i % 2 = 1 THEN IsAttempt(ev[i]) ELSE IsSleep(ev[i])

Returned(p) == pc[p] = "fetch_return"
Succeeded(p) == Returned(p) /\ "prices" \in DOMAIN fetch_result[p]
Exhausted(p) ==
    /\ Returned(p)
    /\ "error" \in DOMAIN fetch_result[p]
    /\ fetch_result[p].error = "ExternalAPIError"

\* C6: a call whose first k attempts fail and whose next attempt succeeds
\* makes exactly k+1 attempts and sleeps exactly k times, the delays being
\* the first k of 1, 2, 4 in that order; sleeps only come between two
\* attempts, never before the first one.
C6_RetrySchedule ==
    \A p \in Procs :
        /\ Alternates(events[p])
        /\ Succeeded(p) =>
             LET ev == events[p]
                 k == FailedAttempts(ev)
             IN /\ k \in 0..3
                /\ Len(AttemptsOf(ev)) = k + 1
                /\ \A i \in 1..k : AttemptsOf(ev)[i].result # "ok"
                /\ ev[Len(ev)] = AttemptEvent("ok")
                /\ SleepsOf(ev) = SubSeq(<<1, 2, 4>>, 1, k)
                /\ Len(ev) = 2 * k + 1

\* Three failures, then a success.
C6_Witness ==
    \E p \in Procs :
        /\ Succeeded(p)
        /\ FailedAttempts(events[p]) = 3
        /\ SleepsOf(events[p]) = <<1, 2, 4>>

\* C7: a call whose four attempts all fail makes exactly four attempts and
\* three sleeps 1, 2, 4, none after the fourth attempt, and raises
\* ExternalAPIError with attempts = 4, the error of the last attempt and
\* the requested symbol list.
C7_Exhaustion ==
    \A p \in Procs :
        LET ev == events[p]
            last == AttemptsOf(ev)[Len(AttemptsOf(ev))]
        IN
        /\ (Returned(p) /\ FailedAttempts(ev) = 4 /\ Caught(last.result))
              => Exhausted(p)
        /\ Exhausted(p) =>
              /\ Len(AttemptsOf(ev)) = 4
              /\ FailedAttempts(ev) = 4
              /\ SleepsOf(ev) = <<1, 2, 4>>
              /\ IsAttempt(ev[Len(ev)])
              /\ Alternates(ev)
              /\ fetch_result[p].details.attempts = 4
              /\ fetch_result[p].details.lastError = last.result
              /\ fetch_result[p].details.symbols = fetch_symbols[p]
        /\ Len(AttemptsOf(ev)) <= 4

\* Four failed attempts, the last of a different kind than the first.
C7_Witness ==
    \E p \in Procs :
        /\ Exhausted(p)
        /\ events[p][1].result = "Timeout"
        /\ fetch_result[p].details.lastError = "ValueError"
        /\ Len(fetch_symbols[p]) = 2

(***************************************************************************)
(* shared/models.py, shared/db.py, shared/cache.py: price items            *)
(***************************************************************************)
CACHE_THRESHOLD_MINUTES == 5

\* datetime.isoformat() of a timezone-aware UTC datetime: the date and
\* time, then the offset.
isoformat(dt) == <<dt, "+00:00">>

\* str.rstrip('Z'): the text without the Z's at its end.
RECURSIVE rstrip_Z(_)
rstrip_Z(text) ==
    IF Len(text) > 1 /\ text[Len(text)] = "Z"
    THEN rstrip_Z(SubSeq(text, 1, Len(text) - 1))
    ELSE text

\* datetime.fromisoformat of a date and time with or without an offset;
\* the model's offsets are all +00:00.
fromisoformat(text) == text[1]

\* Mutant: the item is stamped with the time of the write.
CryptoPrice_to_dynamodb_item_stamps_write(price_data, ttl_seconds, t) ==
    [PK |-> <<"PRICE", price_data.symbol>>, SK |-> <<"METADATA">>,
     symbol |-> price_data.symbol, price |-> price_data.price,
     lastUpdated |-> Append(isoformat(t), "Z"), ttl |-> t + ttl_seconds]

\* CryptoPrice.to_dynamodb_item at time t: lastUpdated is
\* last_updated.isoformat() + 'Z'.
CryptoPrice_to_dynamodb_item(price_data, ttl_seconds, t) ==
    [PK |-> <<"PRICE", price_data.symbol>>, SK |-> <<"METADATA">>,
     symbol |-> price_data.symbol, price |-> price_data.price,
     lastUpdated |-> Append(isoformat(price_data.last_updated), "Z"),
     ttl |-> t + ttl_seconds]

\* The instant an item's lastUpdated text names.
LastUpdatedAt(item) == fromisoformat(rstrip_Z(item.lastUpdated))

\* CryptoPrice.from_dynamodb_item
CryptoPrice_from_dynamodb_item(item) ==
    CryptoPrice(item.symbol, item.price, fromisoformat(rstrip_Z(item.lastUpdated)))

\* A dict is a function on the keys it holds.
EmptyDict == <<>>

\* Mutant: a failed batch read answers with a zero record for each symbol.
get_multiple_price_data_failure_filled(requested, ok) ==
    IF requested = <<>> THEN EmptyDict
    ELSE IF ~ok THEN [sym \in Range(requested) |-> CryptoPrice(sym, 0, 0)]
    ELSE [sym \in { x \in Range(requested) : prices[x] # None } |->
             CryptoPrice_from_dynamodb_item(prices[sym])]

\* batch_get_item: the items that exist, keyed by symbol; {} for an empty
\* request and for a failed call.
get_multiple_price_data(requested, ok) ==
    IF requested = <<>> \/ ~ok THEN EmptyDict
    ELSE [sym \in { x \in Range(requested) : prices[x] # None } |->
             CryptoPrice_from_dynamodb_item(prices[sym])]

\* Mutant: the batch holds the first record only.
save_multiple_price_data_first_only(price_data_list_, ttl_seconds, ok, t) ==
    IF ~ok \/ price_data_list_ = <<>> THEN prices
    ELSE [prices EXCEPT ![price_data_list_[1].symbol] =
             CryptoPrice_to_dynamodb_item(price_data_list_[1], ttl_seconds, t)]

\* The table after save_multiple_price_data at time t: each record put
\* under its symbol, a later record of the list over an earlier one.
save_multiple_price_data(price_data_list_, ttl_seconds, ok, t) ==
    IF ~ok THEN prices
    ELSE [sym \in Symbols |->
            LET idx == { i \in DOMAIN price_data_list_ : price_data_list_[i].symbol = sym }
            IN IF idx = {} THEN prices[sym]
               ELSE CryptoPrice_to_dynamodb_item(
                        price_data_list_[CHOOSE i \in idx : \A j \in idx : j <= i],
                        ttl_seconds, t)]

\* Mutant: an age equal to the threshold still counts as fresh.
is_cache_fresh_le(last_updated, threshold_minutes, t) ==
    (t - last_updated) <= threshold_minutes * 60

is_cache_fresh(last_updated, threshold_minutes, t) ==
    (t - last_updated) < threshold_minutes * 60

\* An Optional[datetime]: None, or the datetime in a box.
Some(t) == [t |-> t]

\* get_cache_age_seconds at time t
get_cache_age_seconds(last_updated, t) == t - last_updated

\* should_refresh_cache: a missing record needs a refresh, an existing one
\* needs it when it is not fresh.
should_refresh_cache(last_updated, threshold_minutes, t) ==
    IF last_updated = None THEN TRUE
    ELSE ~is_cache_fresh(last_updated.t, threshold_minutes, t)

\* CacheManager.get_fresh_multiple_price_data
get_fresh_multiple_price_data(requested, threshold_minutes, ok, t) ==
    LET all_price_data == get_multiple_price_data(requested, ok) IN
    [sym \in { x \in DOMAIN all_price_data :
                 is_cache_fresh(all_price_data[x].last_updated, threshold_minutes, t) }
       |-> all_price_data[sym]]

\* Mutant: the status has an entry only for the symbols the store returned.
get_cache_status_found_only(requested, threshold_minutes, ok, t) ==
    LET all_price_data == get_multiple_price_data(requested, ok) IN
    [sym \in DOMAIN all_price_data |->
        LET is_fresh == is_cache_fresh(all_price_data[sym].last_updated,
                                       threshold_minutes, t)
        IN [exists |-> TRUE, is_fresh |-> is_fresh,
            age_seconds |-> Some(get_cache_age_seconds(all_price_data[sym].last_updated, t)),
            last_updated |-> Some(all_price_data[sym].last_updated),
            needs_refresh |-> ~is_fresh]]

\* CacheManager.get_cache_status
get_cache_status(requested, threshold_minutes, ok, t) ==
    LET all_price_data == get_multiple_price_data(requested, ok) IN
    [sym \in Range(requested) |->
        IF sym \in DOMAIN all_price_data
        THEN LET is_fresh == is_cache_fresh(all_price_data[sym].last_updated,
                                            threshold_minutes, t)
             IN [exists |-> TRUE, is_fresh |-> is_fresh,
                 age_seconds |-> Some(get_cache_age_seconds(all_price_data[sym].last_updated, t)),
                 last_updated |-> Some(all_price_data[sym].last_updated),
                 needs_refresh |-> ~is_fresh]
        ELSE [exists |-> FALSE, is_fresh |-> FALSE, age_seconds |-> None,
              last_updated |-> None, needs_refresh |-> TRUE]]

(***************************************************************************)
(* api/handler.py: lambda_handler from the cache status to the response    *)
(***************************************************************************)
\* The keys of a dict built over `requested`, in insertion order.
RECURSIVE KeysInOrder(_, _)
KeysInOrder(requested, seen) ==
    IF requested = <<>> THEN <<>>
    ELSE IF Head(requested) \in seen THEN KeysInOrder(Tail(requested), seen)
    ELSE <<Head(requested)>> \o KeysInOrder(Tail(requested), seen \cup {Head(requested)})

\* Mutant: a symbol the dict lacks gets a made-up record.
RECURSIVE ValuesOf_filled(_, _)
ValuesOf_filled(dict, requested) ==
    IF requested = <<>> THEN <<>>
    ELSE IF Head(requested) \in DOMAIN dict
    THEN <<dict[Head(requested)]>> \o ValuesOf_filled(dict, Tail(requested))
    ELSE <<CryptoPrice(Head(requested), 0, 0)>> \o ValuesOf_filled(dict, Tail(requested))

\* dict.values() of a dict filled in the order of `requested`.
RECURSIVE ValuesOf(_, _)
ValuesOf(dict, requested) ==
    IF requested = <<>> THEN <<>>
    ELSE IF Head(requested) \in DOMAIN dict
    THEN <<dict[Head(requested)]>> \o ValuesOf(dict, Tail(requested))
    ELSE ValuesOf(dict, Tail(requested))

\* 'ADA' < 'BTC' < 'ETH'
SymbolRank(sym) == CASE sym = "ADA" -> 1 [] sym = "BTC" -> 2 [] sym = "ETH" -> 3

\* price_data_list.sort(key=lambda x: x.symbol): a stable sort.
RECURSIVE SortBySymbol(_)
SortBySymbol(list) ==
    IF list = <<>> THEN <<>>
    ELSE LET rest == SortBySymbol(Tail(list))
             before == SelectSeq(rest, LAMBDA x : SymbolRank(x.symbol) < SymbolRank(Head(list).symbol))
             after == SelectSeq(rest, LAMBDA x : SymbolRank(x.symbol) >= SymbolRank(Head(list).symbol))
         IN before \o <<Head(list)>> \o after

\* format_optimized_response of the sorted list.
SuccessResponse(list) == [statusCode |-> 200, body |-> SortBySymbol(list)]

\* Mutant: a failure is answered with a success that has no prices.
ErrorResponse_empty_success(status, err) == [statusCode |-> 200, body |-> <<>>]

\* The 503 of the fallback branch, carrying the ExternalAPIError.
ErrorResponse(status, err) == [statusCode |-> status, body |-> err]

FreshOf(status, requested) ==
    SelectSeq(KeysInOrder(requested, {}), LAMBDA x : status[x].is_fresh)

\* Mutant: every requested symbol goes to the fetcher.
StaleOf_all(status, requested) == KeysInOrder(requested, {})

StaleOf(status, requested) ==
    SelectSeq(KeysInOrder(requested, {}), LAMBDA x : status[x].needs_refresh)

\* The handler starts on an admitted request whose parameters parsed to
\* `requested`.
lambda_handler(p, requested) ==
    /\ pc[p] = "idle"
    /\ pc' = [pc EXCEPT ![p] = "get_cache_status"]
    /\ symbols' = [symbols EXCEPT ![p] = requested]
    /\ UNCHANGED <<api_keys, now, rate_limits, api_key, api_key_data,
                   rate_limit_data, read_count, outcome, calls, admitted, requests>>
    /\ UNCHANGED <<fetchVars, prices, cache_status, fresh_symbols, stale_symbols,
                   price_data_list, response>>

\* Mutant: the fetcher is given every symbol of the request.
CallFetch_all(p, requested) ==
    /\ pc' = [pc EXCEPT ![p] = "fetch_attempt"]
    /\ fetch_symbols' = [fetch_symbols EXCEPT ![p] = symbols[p]]
    /\ attempt' = [attempt EXCEPT ![p] = 0]
    /\ last_error' = [last_error EXCEPT ![p] = None]
    /\ events' = [events EXCEPT ![p] = <<>>]
    /\ fetch_result' = [fetch_result EXCEPT ![p] = None]

\* The entry of external_api_client.fetch_prices(stale_symbols).
CallFetch(p, requested) ==
    /\ pc' = [pc EXCEPT ![p] = "fetch_attempt"]
    /\ fetch_symbols' = [fetch_symbols EXCEPT ![p] = requested]
    /\ attempt' = [attempt EXCEPT ![p] = 0]
    /\ last_error' = [last_error EXCEPT ![p] = None]
    /\ events' = [events EXCEPT ![p] = <<>>]
    /\ fetch_result' = [fetch_result EXCEPT ![p] = None]

Respond(p, resp) ==
    /\ pc' = [pc EXCEPT ![p] = "done"]
    /\ response' = [response EXCEPT ![p] = resp]

\* Mutant: the classification stamps the items it read with the time of
\* the read.
handler_get_cache_status_touches_items(p, ok) ==
    /\ pc[p] = "get_cache_status"
    /\ LET status == get_cache_status(symbols[p], CACHE_THRESHOLD_MINUTES, ok, now)
           fresh == FreshOf(status, symbols[p])
           stale == StaleOf(status, symbols[p])
       IN /\ cache_status' = [cache_status EXCEPT ![p] = status]
          /\ fresh_symbols' = [fresh_symbols EXCEPT ![p] = fresh]
          /\ stale_symbols' = [stale_symbols EXCEPT ![p] = stale]
          /\ price_data_list' = [price_data_list EXCEPT ![p] = <<>>]
          /\ IF fresh # <<>>
             THEN /\ pc' = [pc EXCEPT ![p] = "get_fresh"]
                  /\ calls' = [calls EXCEPT ![p] = <<"get_multiple_price_data">>]
                  /\ UNCHANGED <<fetchVars, response>>
             ELSE IF stale # <<>>
             THEN /\ CallFetch(p, stale)
                  /\ calls' = [calls EXCEPT ![p] =
                                 <<"get_multiple_price_data", "fetch_prices">>]
                  /\ UNCHANGED response
             ELSE /\ Respond(p, SuccessResponse(<<>>))
                  /\ calls' = [calls EXCEPT ![p] = <<"get_multiple_price_data">>]
                  /\ UNCHANGED fetchVars
    /\ UNCHANGED <<api_keys, now, rate_limits, api_key, api_key_data,
                   rate_limit_data, read_count, outcome, admitted, requests>>
    /\ prices' = [sym \in Symbols |->
                     IF ok /\ sym \in Range(symbols[p]) /\ prices[sym] # None
                     THEN [prices[sym] EXCEPT !.lastUpdated = Append(isoformat(now), "Z")]
                     ELSE prices[sym]]
    /\ UNCHANGED symbols

\* cache_manager.get_cache_status and the split into fresh and stale.
handler_get_cache_status(p, ok) ==
    /\ pc[p] = "get_cache_status"
    /\ LET status == get_cache_status(symbols[p], CACHE_THRESHOLD_MINUTES, ok, now)
           fresh == FreshOf(status, symbols[p])
           stale == StaleOf(status, symbols[p])
       IN /\ cache_status' = [cache_status EXCEPT ![p] = status]
          /\ fresh_symbols' = [fresh_symbols EXCEPT ![p] = fresh]
          /\ stale_symbols' = [stale_symbols EXCEPT ![p] = stale]
          /\ price_data_list' = [price_data_list EXCEPT ![p] = <<>>]
          /\ IF fresh # <<>>
             THEN /\ pc' = [pc EXCEPT ![p] = "get_fresh"]
                  /\ calls' = [calls EXCEPT ![p] = <<"get_multiple_price_data">>]
                  /\ UNCHANGED <<fetchVars, response>>
             ELSE IF stale # <<>>
             THEN /\ CallFetch(p, stale)
                  /\ calls' = [calls EXCEPT ![p] =
                                 <<"get_multiple_price_data", "fetch_prices">>]
                  /\ UNCHANGED response
             ELSE /\ Respond(p, SuccessResponse(<<>>))
                  /\ calls' = [calls EXCEPT ![p] = <<"get_multiple_price_data">>]
                  /\ UNCHANGED fetchVars
    /\ UNCHANGED <<api_keys, now, rate_limits, api_key, api_key_data,
                   rate_limit_data, read_count, outcome, admitted, requests>>
    /\ UNCHANGED <<prices, symbols>>

\* cache_manager.get_fresh_multiple_price_data(fresh_symbols, threshold)
handler_get_fresh(p, ok) ==
    /\ pc[p] = "get_fresh"
    /\ LET fresh_data == get_fresh_multiple_price_data(
                             fresh_symbols[p], CACHE_THRESHOLD_MINUTES, ok, now)
           list == price_data_list[p] \o ValuesOf(fresh_data, fresh_symbols[p])
       IN /\ price_data_list' = [price_data_list EXCEPT ![p] = list]
          /\ IF stale_symbols[p] # <<>>
             THEN /\ CallFetch(p, stale_symbols[p])
                  /\ calls' = [calls EXCEPT ![p] =
                                 @ \o <<"get_multiple_price_data", "fetch_prices">>]
                  /\ UNCHANGED response
             ELSE /\ Respond(p, SuccessResponse(list))
                  /\ calls' = [calls EXCEPT ![p] = Append(@, "get_multiple_price_data")]
                  /\ UNCHANGED fetchVars
    /\ UNCHANGED <<api_keys, now, rate_limits, api_key, api_key_data,
                   rate_limit_data, read_count, outcome, admitted, requests>>
    /\ UNCHANGED <<prices, symbols, cache_status, fresh_symbols, stale_symbols>>

\* Mutant: the new records are answered but not written through.
handler_cache_new_data_skips_write(p, ok) ==
    /\ pc[p] = "fetch_return"
    /\ Succeeded(p)
    /\ LET new_data == fetch_result[p].prices
           list == price_data_list[p] \o new_data
       IN /\ price_data_list' = [price_data_list EXCEPT ![p] = list]
          /\ Respond(p, SuccessResponse(list))
    /\ calls' = [calls EXCEPT ![p] = Append(@, "save_multiple_price_data")]
    /\ UNCHANGED <<api_keys, now, rate_limits, api_key, api_key_data,
                   rate_limit_data, read_count, outcome, admitted, requests>>
    /\ UNCHANGED <<fetchVars, prices, symbols, cache_status, fresh_symbols, stale_symbols>>

\* fetch_prices returned: write the new records through and answer.
handler_cache_new_data(p, ok) ==
    /\ pc[p] = "fetch_return"
    /\ Succeeded(p)
    /\ LET new_data == fetch_result[p].prices
           list == price_data_list[p] \o new_data
       IN /\ prices' = save_multiple_price_data(new_data, 3600, ok, now)
          /\ price_data_list' = [price_data_list EXCEPT ![p] = list]
          /\ Respond(p, SuccessResponse(list))
    /\ calls' = [calls EXCEPT ![p] = Append(@, "save_multiple_price_data")]
    /\ UNCHANGED <<api_keys, now, rate_limits, api_key, api_key_data,
                   rate_limit_data, read_count, outcome, admitted, requests>>
    /\ UNCHANGED <<fetchVars, symbols, cache_status, fresh_symbols, stale_symbols>>

\* Mutant: the fallback answers with the stale records alone.
handler_fallback_drops_fresh(p, ok) ==
    /\ pc[p] = "fetch_return"
    /\ Exhausted(p)
    /\ LET stale_data == get_multiple_price_data(stale_symbols[p], ok)
           list == ValuesOf(stale_data, stale_symbols[p])
       IN IF stale_data # EmptyDict
          THEN /\ price_data_list' = [price_data_list EXCEPT ![p] = list]
               /\ Respond(p, SuccessResponse(list))
          ELSE /\ Respond(p, ErrorResponse(503, fetch_result[p]))
               /\ UNCHANGED price_data_list
    /\ calls' = [calls EXCEPT ![p] = Append(@, "get_multiple_price_data")]
    /\ UNCHANGED <<api_keys, now, rate_limits, api_key, api_key_data,
                   rate_limit_data, read_count, outcome, admitted, requests>>
    /\ UNCHANGED <<fetchVars, prices, symbols, cache_status, fresh_symbols,
                   stale_symbols>>

\* Mutant: the fallback puts the stale records it serves back in the table.
handler_fallback_rewrites_stale(p, ok) ==
    /\ pc[p] = "fetch_return"
    /\ Exhausted(p)
    /\ LET stale_data == get_multiple_price_data(stale_symbols[p], ok)
           list == price_data_list[p] \o ValuesOf(stale_data, stale_symbols[p])
       IN /\ prices' = save_multiple_price_data(
                            ValuesOf(stale_data, stale_symbols[p]), 3600, TRUE, now)
          /\ IF stale_data # EmptyDict
             THEN /\ price_data_list' = [price_data_list EXCEPT ![p] = list]
                  /\ Respond(p, SuccessResponse(list))
             ELSE /\ Respond(p, ErrorResponse(503, fetch_result[p]))
                  /\ UNCHANGED price_data_list
    /\ calls' = [calls EXCEPT ![p] = Append(@, "get_multiple_price_data")]
    /\ UNCHANGED <<api_keys, now, rate_limits, api_key, api_key_data,
                   rate_limit_data, read_count, outcome, admitted, requests>>
    /\ UNCHANGED <<fetchVars, symbols, cache_status, fresh_symbols,
                   stale_symbols>>

\* fetch_prices raised ExternalAPIError: the stale items of the stale
\* symbols, or 503 when the store has none of them.
handler_fallback(p, ok) ==
    /\ pc[p] = "fetch_return"
    /\ Exhausted(p)
    /\ LET stale_data == get_multiple_price_data(stale_symbols[p], ok)
           list == price_data_list[p] \o ValuesOf(stale_data, stale_symbols[p])
       IN IF stale_data # EmptyDict
          THEN /\ price_data_list' = [price_data_list EXCEPT ![p] = list]
               /\ Respond(p, SuccessResponse(list))
          ELSE /\ Respond(p, ErrorResponse(503, fetch_result[p]))
               /\ UNCHANGED price_data_list
    /\ calls' = [calls EXCEPT ![p] = Append(@, "get_multiple_price_data")]
    /\ UNCHANGED <<api_keys, now, rate_limits, api_key, api_key_data,
                   rate_limit_data, read_count, outcome, admitted, requests>>
    /\ UNCHANGED <<fetchVars, prices, symbols, cache_status, fresh_symbols,
                   stale_symbols>>

\* fetch_prices raised something else: the handler's `except Exception`.
handler_unexpected_error(p) ==
    /\ pc[p] = "fetch_return"
    /\ ~Succeeded(p) /\ ~Exhausted(p)
    /\ Respond(p, ErrorResponse(500, [error |-> "INTERNAL_ERROR"]))
    /\ UNCHANGED <<api_keys, now, rate_limits, api_key, api_key_data,
                   rate_limit_data, read_count, outcome, calls, admitted, requests>>
    /\ UNCHANGED <<fetchVars, prices, symbols, cache_status, fresh_symbols,
                   stale_symbols, price_data_list>>

ApiProcs == {"p1"}

\* The provider's answers to the handler's fetch: a timeout, a body that
\* is not JSON, a body pricing some of the coins at 100, a body whose
\* prices are null.
ApiResponses ==
    { r \in Responses :
        \/ r.kind \in {"Timeout", "ValueError"}
        \/ /\ r.kind = "json"
           /\ \A i \in DOMAIN r.data : "usd" \in DOMAIN r.data[i]
           /\ \/ \A i \in DOMAIN r.data :
                    r.data[i].usd.json = "number" /\ r.data[i].usd.v = 100
              \/ /\ DOMAIN r.data = ExternalIds
                 /\ \A i \in DOMAIN r.data : r.data[i].usd.json = "null" }

\* Items an earlier refresh left in the table: written 300 s and 240 s
\* before the clock's start, with the one-hour ttl of a write-through.
StoredItems(sym) ==
    { CryptoPrice_to_dynamodb_item(CryptoPrice(sym, 50, t), 3600, t) : t \in {-300, -240} }

InitApi ==
    /\ api_keys = [k \in KeyIds |-> [keyId |-> k, enabled |-> (k # "kd")]]
    /\ now = 0
    /\ rate_limits = [k \in KeyIds |-> [m \in Minutes |-> None]]
    /\ pc = [p \in Procs |-> "idle"]
    /\ api_key = [p \in Procs |-> NoHeader]
    /\ api_key_data = [p \in Procs |-> None]
    /\ rate_limit_data = [p \in Procs |-> None]
    /\ read_count = [p \in Procs |-> 0]
    /\ outcome = [p \in Procs |-> Pending]
    /\ calls = [p \in Procs |-> <<>>]
    /\ admitted = [k \in KeyIds |-> [m \in Minutes |-> 0]]
    /\ requests = 0
    /\ fetch_symbols = [p \in Procs |-> <<>>]
    /\ attempt = [p \in Procs |-> 0]
    /\ last_error = [p \in Procs |-> None]
    /\ events = [p \in Procs |-> <<>>]
    /\ fetch_result = [p \in Procs |-> None]
    /\ prices \in { f \in [Symbols -> {None} \cup UNION { StoredItems(x) : x \in Symbols }] :
                      \A x \in Symbols : f[x] = None \/ f[x] \in StoredItems(x) }
    /\ symbols = [p \in Procs |-> <<>>]
    /\ cache_status = [p \in Procs |-> <<>>]
    /\ fresh_symbols = [p \in Procs |-> <<>>]
    /\ stale_symbols = [p \in Procs |-> <<>>]
    /\ price_data_list = [p \in Procs |-> <<>>]
    /\ response = [p \in Procs |-> None]

ApiNext ==
    \/ \E p \in ApiProcs, requested \in SymbolLists : lambda_handler(p, requested)
    \/ \E p \in ApiProcs : handler_get_cache_status(p, TRUE)
    \/ \E p \in ApiProcs : handler_get_fresh(p, TRUE)
    \/ \E p \in ApiProcs, resp \in ApiResponses : fetch_attempt(p, resp)
    \/ \E p \in ApiProcs : fetch_backoff(p)
    \/ \E p \in ApiProcs : handler_cache_new_data(p, TRUE)
    \/ \E p \in ApiProcs : handler_fallback(p, TRUE)
    \/ \E p \in ApiProcs : handler_unexpected_error(p)
    \/ Tick(60)

SpecApi == InitApi /\ [][ApiNext]_vars
(***************************************************************************)
(* Properties of the handler's fallback                                    *)
(***************************************************************************)
\* The request's fetch ended in ExternalAPIError.
FetchFailed(p) ==
    /\ "error" \in DOMAIN fetch_result[p]
    /\ fetch_result[p].error = "ExternalAPIError"

BodySymbols(p) == { response[p].body[i].symbol : i \in DOMAIN response[p].body }

\* The records of price_data_list that the fresh read gathered.
FreshGathered(p) ==
    { r \in Range(price_data_list[p]) : r.symbol \in Range(fresh_symbols[p]) }

\* C4: a request whose fetch was exhausted while the fresh read had gathered
\* at least one record ends in a successful response that holds the fresh
\* records; the upstream error surfaces only when nothing was satisfied.
C4_PartialSuccessWins ==
    \A p \in ApiProcs :
        (pc[p] = "done" /\ FetchFailed(p) /\ FreshGathered(p) # {})
        => /\ response[p].statusCode = 200
           /\ FreshGathered(p) \subseteq Range(response[p].body)

SeqProcs == {"p1"}

\* One invocation at a time, every one of them presenting the enabled key k1.
SeqNext ==
    \/ \E p \in SeqProcs : Request(p, "k1")
    \/ \E p \in SeqProcs : validate_api_key(p, TRUE)
    \/ \E p \in SeqProcs : check_rate_limit(p, TRUE)
    \/ \E p \in SeqProcs : check_rate_limit_save(p, TRUE)
    \/ Tick(15)

SpecSeq == Init /\ [][SeqNext]_vars

Min(a, b) == IF a <= b THEN a ELSE b

\* C11: after n calls made one after another by one enabled key inside one
\* window, min(n, limit) of them were admitted, the stored count is
\* min(n, limit), a call up to the limit-th was admitted and a later one was
\* rejected.
C11_SequentialCalls ==
    \A p \in SeqProcs :
        (pc[p] = "done" /\ current_minute(now) = 0)
        => /\ admitted["k1"][0] = Min(requests, rate_limit_per_minute)
           /\ StoredCount("k1", 0) = Min(requests, rate_limit_per_minute)
           /\ outcome[p] = IF requests <= rate_limit_per_minute
                           THEN Admitted ELSE RateLimitError

C11_Witness ==
    \E p \in SeqProcs :
        /\ pc[p] = "done"
        /\ current_minute(now) = 0
        /\ requests > rate_limit_per_minute + 1
        /\ outcome[p] = RateLimitError
        /\ admitted["k1"][0] = rate_limit_per_minute
        /\ StoredCount("k1", 0) = rate_limit_per_minute

(***************************************************************************)
(* Properties of the freshness test                                        *)
(***************************************************************************)
\* The thresholds the freshness test is tried with, in minutes.
Thresholds == {4, 5, 6}

\* last_updated of the stored record of a symbol, None without a record.
LastUpdatedOf(sym) ==
    IF prices[sym] = None THEN None ELSE Some(LastUpdatedAt(prices[sym]))

\* C12: a record is fresh exactly when its age is strictly below the
\* threshold, so it is stale at an age equal to the threshold;
\* should_refresh_cache is the negation for a record and true without one,
\* and the needs_refresh of get_cache_status agrees with it.
C12_FreshnessBoundary ==
    \A sym \in Symbols, m \in Thresholds :
        LET last_updated == LastUpdatedOf(sym) IN
        /\ last_updated # None =>
             /\ is_cache_fresh(last_updated.t, m, now) <=> (now - last_updated.t < m * 60)
             /\ (now - last_updated.t = m * 60) => ~is_cache_fresh(last_updated.t, m, now)
             /\ should_refresh_cache(last_updated, m, now)
                    <=> ~is_cache_fresh(last_updated.t, m, now)
        /\ last_updated = None => should_refresh_cache(last_updated, m, now)
        /\ get_cache_status(<<sym>>, m, TRUE, now)[sym].needs_refresh
               <=> should_refresh_cache(last_updated, m, now)
        /\ get_cache_status(<<sym>>, m, TRUE, now)[sym].is_fresh
               <=> ~should_refresh_cache(last_updated, m, now)

\* A request has just classified a record aged exactly the threshold as
\* stale, a younger one as fresh and a missing one as needing a refresh.
C12_Witness ==
    \E p \in ApiProcs :
        /\ pc[p] = "fetch_attempt" /\ attempt[p] = 0
        /\ DOMAIN cache_status[p] = Symbols
        /\ \E a, b, c \in Symbols :
              /\ prices[a] # None /\ prices[b] # None /\ prices[c] = None
              /\ now - LastUpdatedAt(prices[a]) = CACHE_THRESHOLD_MINUTES * 60
              /\ now - LastUpdatedAt(prices[b]) < CACHE_THRESHOLD_MINUTES * 60
              /\ ~cache_status[p][a].is_fresh /\ cache_status[p][a].needs_refresh
              /\ cache_status[p][b].is_fresh /\ ~cache_status[p][b].needs_refresh
              /\ ~cache_status[p][c].is_fresh /\ cache_status[p][c].needs_refresh

(***************************************************************************)
(* Properties of the handler's paths                                       *)
(***************************************************************************)
FetchCalls(p) == Len(SelectSeq(calls[p], LAMBDA c : c = "fetch_prices"))
WriteCalls(p) == Len(SelectSeq(calls[p], LAMBDA c : c = "save_multiple_price_data"))

\* C13: a request whose symbols were all classified fresh is answered from
\* the store: no upstream call, no attempt, no write of the price items, and
\* every record of the response carries the stored price and the stored
\* observation time.
C13_AllFreshFromStore ==
    \A p \in ApiProcs :
        (/\ pc[p] = "done"
         /\ symbols[p] # <<>>
         /\ \A sym \in Range(symbols[p]) : cache_status[p][sym].is_fresh)
        => /\ FetchCalls(p) = 0
           /\ WriteCalls(p) = 0
           /\ events[p] = <<>>
           /\ response[p].statusCode = 200
           /\ \A r \in Range(response[p].body) :
                 /\ r.symbol \in Range(symbols[p])
                 /\ prices[r.symbol] # None
                 /\ r.price = prices[r.symbol].price
                 /\ r.last_updated = LastUpdatedAt(prices[r.symbol])

C13_Witness ==
    \E p \in ApiProcs :
        /\ pc[p] = "done"
        /\ Len(symbols[p]) = 2
        /\ \A sym \in Range(symbols[p]) : cache_status[p][sym].is_fresh
        /\ response[p].statusCode = 200
        /\ BodySymbols(p) = Range(symbols[p])
        /\ calls[p] = <<"get_multiple_price_data", "get_multiple_price_data">>

\* The request has its classification.
Classified(p) == pc[p] \notin {"idle", "get_cache_status"}

\* The requested symbols classified stale or missing.
NotFresh(p) == { sym \in Range(symbols[p]) : ~cache_status[p][sym].is_fresh }

\* C14: a request calls the fetcher at most once, with one batch that holds
\* exactly the requested symbols classified stale or missing; it does not
\* call it when there is none, and it makes at most four HTTP attempts.
C14_OneFetchOfStale ==
    \A p \in ApiProcs :
        Classified(p)
        => /\ FetchCalls(p) <= 1
           /\ FetchCalls(p) = 1 =>
                 /\ Range(fetch_symbols[p]) = NotFresh(p)
                 /\ Len(fetch_symbols[p]) = Cardinality(NotFresh(p))
                 /\ NotFresh(p) # {}
           /\ NotFresh(p) = {} => FetchCalls(p) = 0 /\ events[p] = <<>>
           /\ (pc[p] = "done" /\ NotFresh(p) # {}) => FetchCalls(p) = 1
           /\ Len(AttemptsOf(events[p])) <= MAX_RETRIES + 1

C14_Witness ==
    \E p \in ApiProcs :
        /\ pc[p] = "done"
        /\ Len(symbols[p]) = 3
        /\ Len(fresh_symbols[p]) = 1
        /\ FetchCalls(p) = 1
        /\ Range(fetch_symbols[p]) = NotFresh(p)
        /\ Len(fetch_symbols[p]) = 2
        /\ Len(AttemptsOf(events[p])) = MAX_RETRIES + 1

\* C15: when the fetch is exhausted and no requested symbol has a record in
\* the store, the response is an error response that carries the
\* ExternalAPIError of the fetch; it is not a success with an empty list.
C15_NothingResolvedIsError ==
    \A p \in ApiProcs :
        (/\ pc[p] = "done"
         /\ FetchFailed(p)
         /\ \A sym \in Range(symbols[p]) : prices[sym] = None)
        => /\ response[p].statusCode # 200
           /\ response[p].statusCode >= 500
           /\ response[p].body = fetch_result[p]
           /\ response[p].body.error = "ExternalAPIError"
           /\ response[p].body.details.attempts = MAX_RETRIES + 1
           /\ response[p].body.details.symbols = symbols[p]

C15_Witness ==
    \E p \in ApiProcs :
        /\ pc[p] = "done"
        /\ FetchFailed(p)
        /\ Len(symbols[p]) = 2
        /\ \A sym \in Range(symbols[p]) : prices[sym] = None
        /\ response[p].statusCode = 503
        /\ response[p].body.error = "ExternalAPIError"
        /\ response[p].body.details.symbols = symbols[p]

(***************************************************************************)
(* The handler over a store whose calls can fail                           *)
(***************************************************************************)
\* Every store call of the handler either works or ends in a ClientError.
ApiFaultyNext ==
    \/ \E p \in ApiProcs, requested \in SymbolLists : lambda_handler(p, requested)
    \/ \E p \in ApiProcs, ok \in BOOLEAN : handler_get_cache_status(p, ok)
    \/ \E p \in ApiProcs, ok \in BOOLEAN : handler_get_fresh(p, ok)
    \/ \E p \in ApiProcs, resp \in ApiResponses : fetch_attempt(p, resp)
    \/ \E p \in ApiProcs : fetch_backoff(p)
    \/ \E p \in ApiProcs, ok \in BOOLEAN : handler_cache_new_data(p, ok)
    \/ \E p \in ApiProcs, ok \in BOOLEAN : handler_fallback(p, ok)
    \/ \E p \in ApiProcs : handler_unexpected_error(p)
    \/ Tick(60)

SpecApiFaulty == InitApi /\ [][ApiFaultyNext]_vars

\* The request's fetch returned records.
FetchSucceeded(p) == "prices" \in DOMAIN fetch_result[p]

\* The records fetch_prices returned to the request.
Fetched(p) == Range(fetch_result[p].prices)

\* C16: the step that follows a successful fetch makes one batch write and
\* answers 200 with every fetched record in the body; the write either puts
\* every fetched record under its symbol with a ttl of one hour, or it fails
\* and leaves the table as it was, and the answer is the same.
C16_WriteThroughBestEffort ==
    [][\A p \in ApiProcs :
          (pc[p] = "fetch_return" /\ FetchSucceeded(p) /\ pc'[p] = "done")
          => /\ response'[p].statusCode = 200
             /\ Fetched(p) \subseteq Range(response'[p].body)
             /\ calls'[p] = Append(calls[p], "save_multiple_price_data")
             /\ \/ prices' = prices
                \/ \A sym \in Symbols :
                      IF \E r \in Fetched(p) : r.symbol = sym
                      THEN \E r \in Fetched(p) :
                              /\ r.symbol = sym
                              /\ prices'[sym] # None
                              /\ prices'[sym].symbol = sym
                              /\ prices'[sym].price = r.price
                              /\ LastUpdatedAt(prices'[sym]) = r.last_updated
                              /\ prices'[sym].ttl = now + 3600
                      ELSE prices'[sym] = prices[sym]]_vars

\* A failed write: a fetched record is in the 200 response and not in the
\* table.
C16_Witness ==
    \E p \in ApiProcs :
        /\ pc[p] = "done"
        /\ FetchSucceeded(p)
        /\ Len(fetch_result[p].prices) = 2
        /\ response[p].statusCode = 200
        /\ Fetched(p) \subseteq Range(response[p].body)
        /\ \E r \in Fetched(p) : prices[r.symbol] = None
        /\ WriteCalls(p) = 1

\* C17: every record of a successful response is for a requested symbol, is
\* the only record of its symbol, and is either a record the fetcher
\* returned to this request or the record of a stored item; nothing is made
\* up for a symbol without data.
C17_OnlyRealRecords ==
    \A p \in ApiProcs :
        (pc[p] = "done" /\ response[p].statusCode = 200)
        => \A i \in DOMAIN response[p].body :
              LET r == response[p].body[i] IN
              /\ r.symbol \in Range(symbols[p])
              /\ \A j \in DOMAIN response[p].body :
                    response[p].body[j].symbol = r.symbol => j = i
              /\ \/ FetchSucceeded(p) /\ r \in Fetched(p)
                 \/ /\ prices[r.symbol] # None
                    /\ r.price = prices[r.symbol].price
                    /\ r.last_updated = LastUpdatedAt(prices[r.symbol])

\* Three symbols requested: one answered from the store, one from the
\* fetcher, one with no data anywhere and absent from the body.
C17_Witness ==
    \E p \in ApiProcs :
        /\ pc[p] = "done"
        /\ response[p].statusCode = 200
        /\ Len(symbols[p]) = 3
        /\ Len(response[p].body) = 2
        /\ FetchSucceeded(p)
        /\ Len(fetch_result[p].prices) = 1
        /\ Len(fresh_symbols[p]) = 1
        /\ \E sym \in Range(symbols[p]) : sym \notin BodySymbols(p) /\ prices[sym] = None

\* C18: a symbol classified stale whose record is in the store is part of
\* the successful response even when the fetch succeeded without it; a
\* requested symbol is left out only when neither the store nor the upstream
\* response has it.
C18_StaleNotDropped ==
    \A p \in ApiProcs :
        (pc[p] = "done" /\ response[p].statusCode = 200 /\ FetchSucceeded(p))
        => \A sym \in Range(stale_symbols[p]) :
              (cache_status[p][sym].exists /\ prices[sym] # None)
              => sym \in BodySymbols(p)

(***************************************************************************)
(* Properties of the retry loop as a state machine                         *)
(***************************************************************************)
\* C19: a call of fetch_prices makes at most four attempts, makes none after
\* a successful one, and ends either in Success with a list that is not
\* empty or in Exhausted with ExternalAPIError.
C19_FetchStateMachine ==
    \A p \in FetchProcs :
        /\ Len(AttemptsOf(events[p])) <= MAX_RETRIES + 1
        /\ attempt[p] \in 0 .. MAX_RETRIES
        /\ \A i \in DOMAIN events[p] :
              (IsAttempt(events[p][i]) /\ events[p][i].result = "ok")
              => i = Len(events[p])
        /\ Returned(p) =>
              \/ Succeeded(p) /\ fetch_result[p].prices # <<>>
              \/ Exhausted(p)

\* C20: an attempt that does not yield records, a malformed body included,
\* is a failed attempt: its error becomes last_error and the call goes on to
\* the backoff; nothing but ExternalAPIError leaves the call and a returned
\* list is not empty.
C20_MalformedIsRetried ==
    [][\A p \in FetchProcs :
          (pc[p] = "fetch_attempt" /\ pc'[p] # "fetch_attempt")
          => LET e == events'[p][Len(events'[p])] IN
             \/ /\ e.result = "ok"
                /\ pc'[p] = "fetch_return"
                /\ fetch_result'[p].prices # <<>>
             \/ /\ e.result # "ok"
                /\ pc'[p] = "fetch_backoff"
                /\ last_error'[p] = [raised |-> e.result]
                /\ fetch_result'[p] = fetch_result[p]]_vars

(***************************************************************************)
(* Properties of _transform_response                                       *)
(***************************************************************************)
\* The body has an entry with a usd field for the symbol.
HasUsd(data, sym) ==
    /\ SYMBOL_MAPPING(sym) \in DOMAIN data
    /\ "usd" \in DOMAIN data[SYMBOL_MAPPING(sym)]

\* The body has a numeric price for the symbol.
HasPrice(data, sym) ==
    HasUsd(data, sym) /\ data[SYMBOL_MAPPING(sym)].usd.json = "number"

\* C21: for the symbols of a call and any body, a successful attempt returns
\* one record for each requested symbol the body prices, in request order,
\* with the body's price and the time of the attempt, and nothing else; it
\* succeeds whenever a requested symbol is priced and no requested entry is
\* malformed, dropping the requested symbols the body lacks.
C21_ExactlyPricedSymbols ==
    \A p \in FetchProcs :
        pc[p] = "fetch_attempt" =>
        \A data \in Bodies :
            LET r == AttemptResult([kind |-> "json", data |-> data], fetch_symbols[p], now)
                priced == SelectSeq(fetch_symbols[p], LAMBDA sym : HasPrice(data, sym))
            IN /\ "prices" \in DOMAIN r =>
                    /\ priced # <<>>
                    /\ Len(r.prices) = Len(priced)
                    /\ \A i \in DOMAIN priced :
                          /\ r.prices[i].symbol = priced[i]
                          /\ r.prices[i].price = data[SYMBOL_MAPPING(priced[i])].usd.v
                          /\ r.prices[i].last_updated = now
               /\ (/\ priced # <<>>
                   /\ \A sym \in Range(fetch_symbols[p]) :
                         HasUsd(data, sym) => HasPrice(data, sym))
                  => "prices" \in DOMAIN r

\* Three symbols asked for out of alphabetical order, two of them returned
\* in the order of the request.
C21_Witness ==
    \E p \in FetchProcs :
        /\ Succeeded(p)
        /\ fetch_symbols[p] = <<"ETH", "ADA", "BTC">>
        /\ Len(fetch_result[p].prices) = 2
        /\ fetch_result[p].prices[1].symbol = "ETH"
        /\ fetch_result[p].prices[2].symbol = "BTC"

(***************************************************************************)
(* Admission over a store whose calls can fail                             *)
(***************************************************************************)
\* Every store call of authenticate_request either works or ends in a
\* ClientError.
AuthFaultyNext ==
    \/ \E p \in Procs, tok \in {"", "kd", "k1"} : Request(p, tok)
    \/ \E p \in Procs, ok \in BOOLEAN : validate_api_key(p, ok)
    \/ \E p \in Procs, ok \in BOOLEAN : check_rate_limit(p, ok)
    \/ \E p \in Procs, ok \in BOOLEAN : check_rate_limit_save(p, ok)
    \/ Tick(30)

SpecAuthFaulty == Init /\ [][AuthFaultyNext]_vars

\* C22: an admitted call has made one get_rate_limit and one
\* save_rate_limit; the object it saves is keyed by its own credential and
\* the window of the read and counts the read plus one; the save changes at
\* most the item of that key, and the call is admitted whether the save
\* lands or not.
C22_OneReadOneWrite ==
    [][\A p \in Procs :
          /\ (pc[p] = "check_rate_limit" /\ pc'[p] = "save_rate_limit")
             => /\ rate_limit_data'[p].api_key = api_key_data[p].key_id
                /\ rate_limit_data'[p].minute = current_minute(now)
                /\ rate_limit_data'[p].request_count = read_count'[p] + 1
                /\ rate_limits' = rate_limits
          /\ (pc[p] = "save_rate_limit" /\ pc'[p] = "done")
             => LET k == rate_limit_data[p].api_key
                    m == rate_limit_data[p].minute
                IN /\ outcome'[p] = Admitted
                   /\ calls'[p] = <<"get_api_key", "get_rate_limit", "save_rate_limit">>
                   /\ \/ rate_limits' = rate_limits
                      \/ /\ \A k2 \in KeyIds, m2 \in Minutes :
                               <<k2, m2>> # <<k, m>>
                               => rate_limits'[k2][m2] = rate_limits[k2][m2]
                         /\ rate_limits'[k][m] # None
                         /\ rate_limits'[k][m].requestCount = read_count[p] + 1
          /\ (outcome'[p] = Admitted /\ outcome[p] # Admitted)
             => pc[p] = "save_rate_limit"]_vars

\* An admitted call whose save failed: the counter does not hold the count
\* the call computed.
C22_Witness ==
    \E p \in Procs :
        /\ pc[p] = "done"
        /\ outcome[p] = Admitted
        /\ calls[p] = <<"get_api_key", "get_rate_limit", "save_rate_limit">>
        /\ rate_limit_data[p].request_count = 1
        /\ rate_limits[rate_limit_data[p].api_key][rate_limit_data[p].minute] = None

(***************************************************************************)
(* api/handler.py: lambda_handler from its entry to the cache status       *)
(***************************************************************************)
SUPPORTED_SYMBOLS == Symbols

\* The symbols of the query string after split, strip and upper, as
\* parse_request_parameters sees them.
RequestParams ==
    { <<>>, <<"XYZ">>, <<"BTC">>, <<"BTC", "BTC">>, <<"ETH", "BTC">>, <<"BTC", "XYZ">> }

ValidationError(msg) == [error |-> "ValidationError", message |-> msg]

\* Mutant: an empty list is let through.
parse_request_parameters_accepts_empty(params) ==
    IF \E i \in DOMAIN params : params[i] \notin SUPPORTED_SYMBOLS
    THEN ValidationError("Unsupported cryptocurrency symbols")
    ELSE [error |-> "none", symbols |-> params]

\* parse_request_parameters: the list as given, or a ValidationError for an
\* empty list and for a list with an unsupported symbol.
parse_request_parameters(params) ==
    IF params = <<>>
    THEN ValidationError("Missing required parameter: symbols or symbol")
    ELSE IF \E i \in DOMAIN params : params[i] \notin SUPPORTED_SYMBOLS
    THEN ValidationError("Unsupported cryptocurrency symbols")
    ELSE [error |-> "none", symbols |-> params]

\* The status code of format_error_response.
StatusOf(err) ==
    CASE err.error = "ValidationError" -> 400
      [] err.error = "AuthenticationError" -> 401
      [] err.error = "RateLimitError" -> 429
      [] err.error = "ExternalAPIError" -> 502
      [] OTHER -> 500

\* What a new invocation starts from: the locals of the previous one are
\* gone.
FreshLocals(p) ==
    /\ api_key_data' = [api_key_data EXCEPT ![p] = None]
    /\ rate_limit_data' = [rate_limit_data EXCEPT ![p] = None]
    /\ read_count' = [read_count EXCEPT ![p] = 0]
    /\ outcome' = [outcome EXCEPT ![p] = Pending]
    /\ fetch_symbols' = [fetch_symbols EXCEPT ![p] = <<>>]
    /\ attempt' = [attempt EXCEPT ![p] = 0]
    /\ last_error' = [last_error EXCEPT ![p] = None]
    /\ events' = [events EXCEPT ![p] = <<>>]
    /\ fetch_result' = [fetch_result EXCEPT ![p] = None]
    /\ symbols' = [symbols EXCEPT ![p] = <<>>]
    /\ cache_status' = [cache_status EXCEPT ![p] = <<>>]
    /\ fresh_symbols' = [fresh_symbols EXCEPT ![p] = <<>>]
    /\ stale_symbols' = [stale_symbols EXCEPT ![p] = <<>>]
    /\ price_data_list' = [price_data_list EXCEPT ![p] = <<>>]

\* get_price_data, whose call may raise something its except clause does
\* not catch: the record, or None for no item and for a ClientError.
get_price_data(symbol, ok) ==
    IF ok /\ prices[symbol] # None
    THEN CryptoPrice_from_dynamodb_item(prices[symbol])
    ELSE None

\* The newest last_updated among the records read, boxed; None without
\* any.
MostRecentUpdate(found) ==
    IF found = {} THEN None
    ELSE Some(CHOOSE t \in { get_price_data(x, TRUE).last_updated : x \in found } :
                 \A x \in found : get_price_data(x, TRUE).last_updated <= t)

\* The response of handle_health_check at time t. connected: the first
\* get_price_data('BTC') did not raise; found: the symbols among BTC, ETH
\* and ADA whose read returned a record.
HealthResponse_stale_at_threshold(connected, found, t) ==
    LET most_recent_update == MostRecentUpdate(found)
        cache_age == IF most_recent_update = None THEN None
                     ELSE Some(get_cache_age_seconds(most_recent_update.t, t))
        is_healthy == /\ connected
                      /\ ~(cache_age # None /\ cache_age.t >= 900)
    IN [statusCode |-> IF is_healthy THEN 200 ELSE 503,
        body |-> [status |-> IF is_healthy THEN "healthy" ELSE "unhealthy",
                  checks |-> [dynamodb |-> IF connected THEN "ok" ELSE "error",
                              lastPriceUpdate |-> most_recent_update,
                              cacheAge |-> cache_age]]]

HealthResponse(connected, found, t) ==
    LET most_recent_update == MostRecentUpdate(found)
        cache_age == IF most_recent_update = None THEN None
                     ELSE Some(get_cache_age_seconds(most_recent_update.t, t))
        is_healthy == /\ connected
                      /\ ~(cache_age # None /\ cache_age.t > 900)
    IN [statusCode |-> IF is_healthy THEN 200 ELSE 503,
        body |-> [status |-> IF is_healthy THEN "healthy" ELSE "unhealthy",
                  checks |-> [dynamodb |-> IF connected THEN "ok" ELSE "error",
                              lastPriceUpdate |-> most_recent_update,
                              cacheAge |-> cache_age]]]

\* handle_health_check: one read of BTC for the connectivity, then the
\* reads of BTC, ETH and ADA, without any credential. connected: the
\* first read did not raise; answered: the symbols whose later read
\* neither raised nor ended in a ClientError.
handle_health_check(p, connected, answered) ==
    /\ pc[p] \in {"idle", "done"}
    /\ requests < MaxRequests
    /\ requests' = requests + 1
    /\ FreshLocals(p)
    /\ api_key' = [api_key EXCEPT ![p] = NoHeader]
    /\ calls' = [calls EXCEPT ![p] =
                   <<"get_price_data", "get_price_data", "get_price_data", "get_price_data">>]
    /\ LET found == { x \in answered : get_price_data(x, TRUE) # None }
       IN Respond(p, HealthResponse(connected, found, now))
    /\ UNCHANGED <<api_keys, now, rate_limits, admitted, prices>>

\* The entry of lambda_handler for a path other than /health: the key is
\* taken from the headers and authenticate_request starts.
lambda_handler_entry(p, tok) ==
    /\ pc[p] \in {"idle", "done"}
    /\ requests < MaxRequests
    /\ requests' = requests + 1
    /\ FreshLocals(p)
    /\ pc' = [pc EXCEPT ![p] = "validate_api_key"]
    /\ api_key' = [api_key EXCEPT ![p] = tok]
    /\ calls' = [calls EXCEPT ![p] = <<>>]
    /\ response' = [response EXCEPT ![p] = None]
    /\ UNCHANGED <<api_keys, now, rate_limits, admitted, prices>>

\* authenticate_request has returned or raised and the handler has not
\* answered yet.
AuthReturned(p) == pc[p] = "done" /\ outcome[p] # Pending /\ response[p] = None

\* except AuthenticationError / except RateLimitError: 401 or 429.
lambda_handler_auth_error(p) ==
    /\ AuthReturned(p)
    /\ outcome[p] # Admitted
    /\ response' = [response EXCEPT ![p] = ErrorResponse(StatusOf(outcome[p]), outcome[p])]
    /\ UNCHANGED <<api_keys, now, rate_limits, pc, api_key, api_key_data, rate_limit_data,
                   read_count, outcome, calls, admitted, requests>>
    /\ UNCHANGED <<fetchVars, prices, symbols, cache_status, fresh_symbols, stale_symbols,
                   price_data_list>>

\* Mutant: the parameters are parsed whatever authenticate_request did.
lambda_handler_parse_unauthenticated(p, params) ==
    /\ AuthReturned(p)
    /\ LET parsed == parse_request_parameters(params) IN
       IF parsed.error = "none"
       THEN /\ pc' = [pc EXCEPT ![p] = "get_cache_status"]
            /\ symbols' = [symbols EXCEPT ![p] = parsed.symbols]
            /\ UNCHANGED response
       ELSE /\ response' = [response EXCEPT ![p] = ErrorResponse(StatusOf(parsed), parsed)]
            /\ UNCHANGED <<pc, symbols>>
    /\ UNCHANGED <<api_keys, now, rate_limits, api_key, api_key_data, rate_limit_data,
                   read_count, outcome, calls, admitted, requests>>
    /\ UNCHANGED <<fetchVars, prices, cache_status, fresh_symbols, stale_symbols,
                   price_data_list>>

\* After admission: parse_request_parameters, then the cache status; a
\* ValidationError is answered with 400.
lambda_handler_parse(p, params) ==
    /\ AuthReturned(p)
    /\ outcome[p] = Admitted
    /\ LET parsed == parse_request_parameters(params) IN
       IF parsed.error = "none"
       THEN /\ pc' = [pc EXCEPT ![p] = "get_cache_status"]
            /\ symbols' = [symbols EXCEPT ![p] = parsed.symbols]
            /\ UNCHANGED response
       ELSE /\ response' = [response EXCEPT ![p] = ErrorResponse(StatusOf(parsed), parsed)]
            /\ UNCHANGED <<pc, symbols>>
    /\ UNCHANGED <<api_keys, now, rate_limits, api_key, api_key_data, rate_limit_data,
                   read_count, outcome, calls, admitted, requests>>
    /\ UNCHANGED <<fetchVars, prices, cache_status, fresh_symbols, stale_symbols,
                   price_data_list>>

\* The provider's answers in a whole request: a timeout, or a body pricing
\* every coin at 100.
RequestResponses ==
    { r \in ApiResponses :
        \/ r.kind = "Timeout"
        \/ r.kind = "json" /\ DOMAIN r.data = ExternalIds
                           /\ \A i \in DOMAIN r.data : r.data[i].usd.json = "number" }

RequestNext ==
    \/ \E p \in ApiProcs, connected \in BOOLEAN, answered \in SUBSET Symbols :
          handle_health_check(p, connected, answered)
    \/ \E p \in ApiProcs, tok \in {NoHeader, "kx", "kd", "k1"} : lambda_handler_entry(p, tok)
    \/ \E p \in ApiProcs : validate_api_key(p, TRUE)
    \/ \E p \in ApiProcs : check_rate_limit(p, TRUE)
    \/ \E p \in ApiProcs : check_rate_limit_save(p, TRUE)
    \/ \E p \in ApiProcs : lambda_handler_auth_error(p)
    \/ \E p \in ApiProcs, params \in RequestParams : lambda_handler_parse(p, params)
    \/ \E p \in ApiProcs : handler_get_cache_status(p, TRUE)
    \/ \E p \in ApiProcs : handler_get_fresh(p, TRUE)
    \/ \E p \in ApiProcs, resp \in RequestResponses : fetch_attempt(p, resp)
    \/ \E p \in ApiProcs : fetch_backoff(p)
    \/ \E p \in ApiProcs : handler_cache_new_data(p, TRUE)
    \/ \E p \in ApiProcs : handler_fallback(p, TRUE)
    \/ Tick(60)

SpecRequest == Init /\ [][RequestNext]_vars

(***************************************************************************)
(* Properties of the whole request                                         *)
(***************************************************************************)
\* authenticate_request raised: the key was missing, unknown or disabled,
\* or the limit was reached.
Rejected(p) == outcome[p].error \in {"AuthenticationError", "RateLimitError"}

\* Nothing of the request's processing has happened.
Unprocessed(p) ==
    /\ symbols[p] = <<>>
    /\ cache_status[p] = <<>>
    /\ fresh_symbols[p] = <<>> /\ stale_symbols[p] = <<>>
    /\ price_data_list[p] = <<>>
    /\ events[p] = <<>>
    /\ fetch_result[p] = None
    /\ Range(calls[p]) \subseteq {"get_api_key", "get_rate_limit"}

\* C23: admission comes before processing. Whenever a request other than
\* the health check has parsed parameters, a cache status, a fetch attempt
\* or a price-store call, authenticate_request has returned for it; a
\* request that authenticate_request rejected has none of them, is answered
\* with 401 or 429, and no step taken for it changes the price table.
C23_AdmissionFirst ==
    [][\A p \in ApiProcs :
          /\ (outcome'[p] # Admitted /\ api_key'[p] # NoHeader) => Unprocessed(p)'
          /\ Rejected(p)' =>
                /\ Unprocessed(p)'
                /\ prices' = prices
                /\ response'[p] = None \/ response'[p].statusCode \in {401, 429}]_vars

C23_Witness ==
    \E p \in ApiProcs :
        /\ pc[p] = "done"
        /\ outcome[p] = RateLimitError
        /\ response[p] # None
        /\ response[p].statusCode = 429
        /\ Unprocessed(p)
        /\ prices["BTC"] # None

(***************************************************************************)
(* Properties of the classification                                        *)
(***************************************************************************)
IsFreshEntry(e) == e.exists /\ e.is_fresh /\ ~e.needs_refresh
IsStaleEntry(e) == e.exists /\ ~e.is_fresh /\ e.needs_refresh
IsMissingEntry(e) == ~e.exists /\ ~e.is_fresh /\ e.needs_refresh

\* The three classes exclude each other by their fields, so an entry that
\* is in one of them is in exactly one.
WellClassified(status, requested) ==
    /\ DOMAIN status = Range(requested)
    /\ \A sym \in DOMAIN status :
          /\ IsFreshEntry(status[sym]) \/ IsStaleEntry(status[sym])
                \/ IsMissingEntry(status[sym])
          /\ ~(IsFreshEntry(status[sym]) /\ IsStaleEntry(status[sym]))
          /\ ~(IsFreshEntry(status[sym]) /\ IsMissingEntry(status[sym]))
          /\ ~(IsStaleEntry(status[sym]) /\ IsMissingEntry(status[sym]))
          /\ status[sym].needs_refresh = ~status[sym].is_fresh

\* C24: the status get_cache_status returns has one entry for each
\* requested symbol and no other; each entry is fresh, stale or missing
\* and only one of them; needs_refresh is the negation of is_fresh. This
\* holds of the status the handler got and, in every state of the store,
\* of the status of a list of all symbols and of a list with a repeat,
\* for each threshold and store outcome.
C24_OneClassPerSymbol ==
    /\ \A p \in ApiProcs :
          Classified(p) => WellClassified(cache_status[p], symbols[p])
    /\ \A requested \in {<<"ETH", "BTC", "ADA">>, <<"BTC", "BTC">>},
             m \in Thresholds, ok \in BOOLEAN :
          WellClassified(get_cache_status(requested, m, ok, now), requested)

C24_Witness ==
    \E p \in ApiProcs :
        /\ Classified(p)
        /\ \E a, b, c \in Range(symbols[p]) :
              /\ IsFreshEntry(cache_status[p][a])
              /\ IsStaleEntry(cache_status[p][b])
              /\ IsMissingEntry(cache_status[p][c])

(***************************************************************************)
(* Properties of the store's failures                                      *)
(***************************************************************************)
\* The status in which every requested symbol is a cache miss.
AllMissing(requested) ==
    [sym \in Range(requested) |->
        [exists |-> FALSE, is_fresh |-> FALSE, age_seconds |-> None,
         last_updated |-> None, needs_refresh |-> TRUE]]

\* C25: a batch read that fails gives the handler what a read of an empty
\* table gives, and the handler goes on. The classification yields the
\* status of the table or the all-missing status and goes on to the fresh
\* read or the fetch; the fresh read adds the fresh records or nothing and
\* goes on to the fetch or the 200 response; the fallback read adds the
\* stored records, or answers the 503 of "no cached data". A 500 comes
\* only from an exception of the fetcher, never from a read.
C25_FailedReadIsMiss ==
    [][\A p \in ApiProcs :
          /\ (pc[p] = "get_cache_status" /\ pc'[p] # pc[p]) =>
                /\ cache_status'[p] \in
                      { get_cache_status(symbols[p], CACHE_THRESHOLD_MINUTES, TRUE, now),
                        AllMissing(symbols[p]) }
                /\ pc'[p] \in {"get_fresh", "fetch_attempt"}
                /\ response'[p] = response[p]
          /\ (pc[p] = "get_fresh" /\ pc'[p] # pc[p]) =>
                /\ price_data_list'[p] \in
                      { ValuesOf(get_fresh_multiple_price_data(
                                     fresh_symbols[p], CACHE_THRESHOLD_MINUTES, TRUE, now),
                                 fresh_symbols[p]),
                        <<>> }
                /\ \/ pc'[p] = "fetch_attempt" /\ stale_symbols[p] # <<>>
                   \/ /\ pc'[p] = "done" /\ stale_symbols[p] = <<>>
                      /\ response'[p] = SuccessResponse(price_data_list'[p])
          /\ (pc[p] = "fetch_return" /\ FetchFailed(p) /\ pc'[p] = "done") =>
                \/ /\ response'[p].statusCode = 200
                   /\ price_data_list'[p] =
                         price_data_list[p] \o
                            ValuesOf(get_multiple_price_data(stale_symbols[p], TRUE),
                                     stale_symbols[p])
                \/ /\ response'[p] = ErrorResponse(503, fetch_result[p])
                   /\ price_data_list'[p] = price_data_list[p]
          /\ (response'[p] # response[p] /\ response'[p].statusCode = 500) =>
                (pc[p] = "fetch_return" /\ ~FetchSucceeded(p) /\ ~FetchFailed(p))]_vars

\* A request that asked for a symbol the table holds, got it classified
\* missing by a failed read, and still ended with a 200.
C25_Witness ==
    \E p \in ApiProcs :
        /\ pc[p] = "done"
        /\ response[p].statusCode = 200
        /\ response[p].body # <<>>
        /\ \E sym \in Range(symbols[p]) :
              /\ prices[sym] # None
              /\ LastUpdatedAt(prices[sym]) < 0
              /\ ~cache_status[p][sym].exists

(***************************************************************************)
(* Two calls of get_cache_status                                           *)
(***************************************************************************)
ClassifyLists == { <<"BTC">>, <<"ETH", "BTC">> }

\* Two callers classify; nothing writes the price table.
ClassifyNext ==
    \/ \E p \in Procs, requested \in ClassifyLists : lambda_handler(p, requested)
    \/ \E p \in Procs, ok \in BOOLEAN : handler_get_cache_status(p, ok)
    \/ Tick(60)

SpecClassify == InitApi /\ [][ClassifyNext]_vars

\* The classification of a status: what exists, what is fresh, what needs
\* a refresh.
ClassOf(status) ==
    [sym \in DOMAIN status |->
        <<status[sym].exists, status[sym].is_fresh, status[sym].needs_refresh>>]

\* The call's batch read succeeded: it saw the items the table holds.
ReadSucceeded(p) ==
    \A sym \in Range(symbols[p]) : cache_status[p][sym].exists = (prices[sym] # None)

\* The two calls read the clock at the same instant: the ages they report
\* agree.
SameClock(p, q) ==
    \A sym \in Range(symbols[p]) \cap Range(symbols[q]) :
        cache_status[p][sym].age_seconds = cache_status[q][sym].age_seconds

C27_ObservedAtIsFetchTime ==
    [][\A p \in ApiProcs :
          /\ (pc[p] = "fetch_attempt" /\ FetchSucceeded(p)') =>
                \A r \in Fetched(p)' : r.last_updated = now
          /\ (pc[p] = "fetch_return" /\ FetchSucceeded(p)) =>
                /\ fetch_result'[p] = fetch_result[p]
                /\ pc'[p] = "done" =>
                      \A r \in Fetched(p) : r \in Range(response'[p].body)
          /\ \A sym \in Symbols :
                prices'[sym] # prices[sym] =>
                   /\ pc[p] = "fetch_return" /\ FetchSucceeded(p)
                   /\ \E r \in Fetched(p) :
                         /\ r.symbol = sym
                         /\ LastUpdatedAt(prices'[sym]) = r.last_updated
                         /\ prices'[sym].price = r.price
          /\ (pc[p] # "done" /\ pc'[p] = "done" /\ response'[p].statusCode = 200) =>
                \A r \in Range(response'[p].body) :
                   \/ FetchSucceeded(p) /\ r \in Fetched(p)
                   \/ /\ prices[r.symbol] # None
                      /\ r.last_updated = LastUpdatedAt(prices[r.symbol])
                      /\ r.price = prices[r.symbol].price]_vars

\* A fetched record written through a minute after the attempt that
\* obtained it, stored under the time of the attempt, beside a stored
\* record served with the instant of its item.
C27_Witness ==
    \E p \in ApiProcs :
        /\ pc[p] = "done"
        /\ response[p].statusCode = 200
        /\ FetchSucceeded(p)
        /\ now = 60
        /\ \E r \in Fetched(p) :
              /\ r.last_updated = 0
              /\ prices[r.symbol] # None
              /\ LastUpdatedAt(prices[r.symbol]) = 0
              /\ prices[r.symbol].ttl = 60 + 3600
        /\ \E r \in Range(response[p].body) :
              /\ r.last_updated = -240
              /\ LastUpdatedAt(prices[r.symbol]) = -240

(***************************************************************************)
(* Properties of the counter's expiry                                      *)
(***************************************************************************)
\* The counter a step wrote: the item of key k and minute m differs after
\* the step.
Written(k, m) == rate_limits'[k][m] # rate_limits[k][m]

\* C28 as stated: every counter write sets the expiry to the start of the
\* counter's window plus 3600 s.
C28_ExpiryFromWindowStart ==
    [][\A k \in KeyIds, m \in Minutes :
          Written(k, m) => rate_limits'[k][m].ttl = m * 60 + 3600]_vars

\* C28 amended: a call that finds no counter creates one that expires
\* 3600 s after the call's own clock reading, so a call s seconds into the
\* window writes window start + s + 3600; a call that finds a counter
\* writes the expiry it read. Every stored expiry is therefore at least
\* the window start plus 3600 s.
C28_ExpiryFromArrival ==
    [][/\ \A p \in Procs :
             (pc[p] = "check_rate_limit" /\ pc'[p] = "save_rate_limit") =>
                rate_limit_data'[p].ttl =
                   IF read_count'[p] = 0 THEN now + 3600
                   ELSE rate_limits[rate_limit_data'[p].api_key]
                                   [rate_limit_data'[p].minute].ttl
       /\ \A k \in KeyIds, m \in Minutes :
             Written(k, m) =>
                /\ \E p \in Procs :
                      /\ pc[p] = "save_rate_limit" /\ pc'[p] = "done"
                      /\ rate_limit_data[p].api_key = k /\ rate_limit_data[p].minute = m
                      /\ rate_limits'[k][m].ttl = rate_limit_data[p].ttl
                /\ rate_limits'[k][m].ttl >= m * 60 + 3600]_vars

\* A counter created 30 s into the first window and incremented later:
\* it expires at 3630, not at 3600.
C28_Witness ==
    \E k \in KeyIds :
        /\ rate_limits[k][0] # None
        /\ rate_limits[k][0].requestCount = 2
        /\ rate_limits[k][0].ttl = 30 + 3600

(***************************************************************************)
(* Properties of the fixed windows                                         *)
(***************************************************************************)
\* C29: a check_rate_limit call decides on the counter of its own key and
\* of the minute its clock reading is in, and on nothing else: it rejects
\* exactly when that counter has reached the limit and otherwise prepares
\* that counter plus one, count 1 when there is none, whatever the other
\* keys and minutes hold. Its save writes the counter of that key and
\* minute and leaves every other counter as it was.
C29_WindowIsolation ==
    [][/\ \A p \in Procs :
             (pc[p] = "check_rate_limit" /\ pc'[p] # pc[p]) =>
                LET k == api_key_data[p].key_id
                    m == current_minute(now)
                    c == StoredCount(k, m)
                IN /\ read_count'[p] = c
                   /\ rate_limits' = rate_limits
                   /\ IF c >= rate_limit_per_minute
                      THEN pc'[p] = "done" /\ outcome'[p] = RateLimitError
                      ELSE /\ pc'[p] = "save_rate_limit"
                           /\ rate_limit_data'[p].api_key = k
                           /\ rate_limit_data'[p].minute = m
                           /\ rate_limit_data'[p].request_count = c + 1
       /\ \A k \in KeyIds, m \in Minutes :
             Written(k, m) =>
                \E p \in Procs :
                   /\ pc[p] = "save_rate_limit" /\ pc'[p] = "done"
                   /\ outcome'[p] = Admitted
                   /\ api_key_data[p].key_id = k
                   /\ rate_limit_data[p].api_key = k /\ rate_limit_data[p].minute = m
                   /\ \A k2 \in KeyIds, m2 \in Minutes :
                         (k2 # k \/ m2 # m) => rate_limits'[k2][m2] = rate_limits[k2][m2]]_vars

\* A key that filled its first window and was rejected there is admitted
\* in the next one, whose counter starts at 1.
C29_Witness ==
    \E p, q \in Procs :
        /\ p # q
        /\ pc[q] = "done" /\ outcome[q] = RateLimitError
        /\ api_key_data[q].key_id = "k1"
        /\ rate_limits["k1"][0] # None
        /\ rate_limits["k1"][0].requestCount = rate_limit_per_minute
        /\ pc[p] = "done" /\ outcome[p] = Admitted
        /\ rate_limit_data[p].api_key = "k1" /\ rate_limit_data[p].minute = 1
        /\ rate_limit_data[p].request_count = 1
        /\ rate_limits["k1"][1] # None
        /\ rate_limits["k1"][1].requestCount = 1
        /\ rate_limits["k2"][0] = None /\ rate_limits["k2"][1] = None

(***************************************************************************)
(* Properties of the symbol lists                                          *)
(***************************************************************************)
\* The Keys of the batch_get_item request for a list of symbols: one per
\* element of the list.
BatchKeys(requested) ==
    [i \in DOMAIN requested |-> [PK |-> <<"PRICE", requested[i]>>, SK |-> <<"METADATA">>]]

NoRepeats(list) == \A i, j \in DOMAIN list : i # j => list[i] # list[j]

\* C30: once a request has been classified, the keys of the batch read of
\* its classification, the symbols of its fresh read and the symbols given
\* to the fetcher each hold a symbol at most once.
C30_NoDuplicateKeys ==
    \A p \in ApiProcs :
        cache_status[p] # <<>> =>
            /\ NoRepeats(BatchKeys(symbols[p]))
            /\ NoRepeats(BatchKeys(fresh_symbols[p]))
            /\ NoRepeats(fetch_symbols[p])

(***************************************************************************)
(* Properties of the empty request                                         *)
(***************************************************************************)
\* An admitted request that named no symbol has been answered: nothing
\* was parsed into `symbols`, and the answer is not the rejection of an
\* unsupported symbol.
EmptyRequestAnswered(p) ==
    /\ outcome[p] = Admitted
    /\ response[p] # None
    /\ symbols[p] = <<>>
    /\ response[p].body # ValidationError("Unsupported cryptocurrency symbols")

\* The request made no call on the price items and no attempt on the
\* provider.
NoPriceCalls(p) ==
    /\ Range(calls[p]) \subseteq {"get_api_key", "get_rate_limit", "save_rate_limit"}
    /\ events[p] = <<>>
    /\ fetch_result[p] = None
    /\ cache_status[p] = <<>>

\* C31 as stated: a request for no symbol is answered with an empty
\* result, without a price-store call and without an upstream call.
C31_EmptyRequestEmptyResult ==
    \A p \in ApiProcs :
        EmptyRequestAnswered(p) =>
            /\ response[p] = SuccessResponse(<<>>)
            /\ NoPriceCalls(p)

\* C31 amended: a request for no symbol is answered with the 400 of a
\* ValidationError, without a price-store call and without an upstream
\* call; and the batch read of an empty list is the empty dict whether
\* the store answers or not.
C31_EmptyRequestRejected ==
    /\ \A p \in ApiProcs :
          EmptyRequestAnswered(p) =>
              /\ response[p] = ErrorResponse(400,
                     ValidationError("Missing required parameter: symbols or symbol"))
              /\ NoPriceCalls(p)
    /\ \A ok \in BOOLEAN : get_multiple_price_data(<<>>, ok) = EmptyDict

C31_Witness ==
    \E p \in ApiProcs :
        /\ EmptyRequestAnswered(p)
        /\ response[p].statusCode = 400
        /\ calls[p] = <<"get_api_key", "get_rate_limit", "save_rate_limit">>
        /\ prices["BTC"] # None

(***************************************************************************)
(* The health check                                                        *)
(***************************************************************************)
\* Items an earlier refresh left behind: 900 s and 300 s before the
\* clock's start.
HealthItems(sym) ==
    { CryptoPrice_to_dynamodb_item(CryptoPrice(sym, 50, t), 3600, t) : t \in {-900, -300} }

InitHealth ==
    /\ api_keys = [k \in KeyIds |-> [keyId |-> k, enabled |-> (k # "kd")]]
    /\ now = 0
    /\ rate_limits = [k \in KeyIds |-> [m \in Minutes |-> None]]
    /\ pc = [p \in Procs |-> "idle"]
    /\ api_key = [p \in Procs |-> NoHeader]
    /\ api_key_data = [p \in Procs |-> None]
    /\ rate_limit_data = [p \in Procs |-> None]
    /\ read_count = [p \in Procs |-> 0]
    /\ outcome = [p \in Procs |-> Pending]
    /\ calls = [p \in Procs |-> <<>>]
    /\ admitted = [k \in KeyIds |-> [m \in Minutes |-> 0]]
    /\ requests = 0
    /\ fetch_symbols = [p \in Procs |-> <<>>]
    /\ attempt = [p \in Procs |-> 0]
    /\ last_error = [p \in Procs |-> None]
    /\ events = [p \in Procs |-> <<>>]
    /\ fetch_result = [p \in Procs |-> None]
    /\ prices \in { f \in [Symbols -> {None} \cup UNION { HealthItems(x) : x \in Symbols }] :
                      \A x \in Symbols : f[x] = None \/ f[x] \in HealthItems(x) }
    /\ symbols = [p \in Procs |-> <<>>]
    /\ cache_status = [p \in Procs |-> <<>>]
    /\ fresh_symbols = [p \in Procs |-> <<>>]
    /\ stale_symbols = [p \in Procs |-> <<>>]
    /\ price_data_list = [p \in Procs |-> <<>>]
    /\ response = [p \in Procs |-> None]

HealthNext ==
    \/ \E p \in ApiProcs, connected \in BOOLEAN, answered \in SUBSET Symbols :
          handle_health_check(p, connected, answered)
    \/ \E p \in ApiProcs, tok \in {"k1"} : lambda_handler_entry(p, tok)
    \/ \E p \in ApiProcs : validate_api_key(p, TRUE)
    \/ \E p \in ApiProcs : check_rate_limit(p, TRUE)
    \/ \E p \in ApiProcs : check_rate_limit_save(p, TRUE)
    \/ Tick(60)

SpecHealth == InitHealth /\ [][HealthNext]_vars

\* The step is a /health request answered.
HealthStep(p) ==
    /\ requests' = requests + 1
    /\ pc'[p] = "done"
    /\ response'[p] # None

get_supported_symbols == <<"BTC", "ETH", "ADA">>

UpdateProcs == {"p2"}

\* The entry of the job up to the call of fetch_prices(symbols).
update_lambda_handler(p) ==
    /\ pc[p] \in {"idle", "done"}
    /\ requests < MaxRequests
    /\ requests' = requests + 1
    /\ CallFetch(p, get_supported_symbols)
    /\ symbols' = [symbols EXCEPT ![p] = get_supported_symbols]
    /\ calls' = [calls EXCEPT ![p] = <<"fetch_prices">>]
    /\ response' = [response EXCEPT ![p] = None]
    /\ UNCHANGED <<api_keys, now, rate_limits, api_key, api_key_data,
                   rate_limit_data, read_count, outcome, admitted>>
    /\ UNCHANGED <<prices, cache_status, fresh_symbols, stale_symbols, price_data_list>>

\* except ExternalAPIError: 502, nothing saved.
update_fetch_error(p) ==
    /\ pc[p] = "fetch_return"
    /\ Exhausted(p)
    /\ Respond(p, [statusCode |-> 502,
                   body |-> [message |-> "Failed to fetch prices from external API"]])
    /\ UNCHANGED <<api_keys, now, rate_limits, api_key, api_key_data,
                   rate_limit_data, read_count, outcome, calls, admitted, requests>>
    /\ UNCHANGED <<fetchVars, prices, symbols, cache_status, fresh_symbols,
                   stale_symbols, price_data_list>>

\* Mutant: the result of the batch write is not looked at.
update_save_prices_ignores_result(p, ok) ==
    /\ pc[p] = "fetch_return"
    /\ Succeeded(p)
    /\ prices' = save_multiple_price_data(fetch_result[p].prices, 3600, ok, now)
    /\ calls' = [calls EXCEPT ![p] = Append(@, "save_multiple_price_data")]
    /\ Respond(p, [statusCode |-> 200,
                   body |-> [message |-> "Price update completed successfully"]])
    /\ UNCHANGED <<api_keys, now, rate_limits, api_key, api_key_data,
                   rate_limit_data, read_count, outcome, admitted, requests>>
    /\ UNCHANGED <<fetchVars, symbols, cache_status, fresh_symbols, stale_symbols,
                   price_data_list>>

\* save_multiple_price_data(prices, ttl_seconds=3600): 500 when it returns
\* False, 200 otherwise.
update_save_prices(p, ok) ==
    /\ pc[p] = "fetch_return"
    /\ Succeeded(p)
    /\ prices' = save_multiple_price_data(fetch_result[p].prices, 3600, ok, now)
    /\ calls' = [calls EXCEPT ![p] = Append(@, "save_multiple_price_data")]
    /\ Respond(p, IF ok
                  THEN [statusCode |-> 200,
                        body |-> [message |-> "Price update completed successfully"]]
                  ELSE [statusCode |-> 500,
                        body |-> [message |-> "Failed to save prices to DynamoDB"]])
    /\ UNCHANGED <<api_keys, now, rate_limits, api_key, api_key_data,
                   rate_limit_data, read_count, outcome, admitted, requests>>
    /\ UNCHANGED <<fetchVars, symbols, cache_status, fresh_symbols, stale_symbols,
                   price_data_list>>

\* except Exception: anything else that fetch_prices raised.
update_unexpected_error(p) ==
    /\ pc[p] = "fetch_return"
    /\ ~Succeeded(p) /\ ~Exhausted(p)
    /\ Respond(p, [statusCode |-> 500,
                   body |-> [message |-> "Unexpected error during price update"]])
    /\ UNCHANGED <<api_keys, now, rate_limits, api_key, api_key_data,
                   rate_limit_data, read_count, outcome, calls, admitted, requests>>
    /\ UNCHANGED <<fetchVars, prices, symbols, cache_status, fresh_symbols,
                   stale_symbols, price_data_list>>

\* What the provider sends the job: a timeout, a body for every coin
\* (priced or null) and a body with bitcoin alone.
UpdateResponses ==
    { r \in ApiResponses :
        \/ r.kind = "Timeout"
        \/ r.kind = "json" /\ DOMAIN r.data \in {ExternalIds, {"bitcoin"}} }

UpdateNext ==
    \/ \E p \in UpdateProcs : update_lambda_handler(p)
    \/ \E p \in UpdateProcs, resp \in UpdateResponses : fetch_attempt(p, resp)
    \/ \E p \in UpdateProcs : fetch_backoff(p)
    \/ \E p \in UpdateProcs : update_fetch_error(p)
    \/ \E p \in UpdateProcs, ok \in BOOLEAN : update_save_prices(p, ok)
    \/ \E p \in UpdateProcs : update_unexpected_error(p)
    \/ Tick(60)

SpecUpdate == InitApi /\ [][UpdateNext]_vars

\* C33: the job changes price items in one step only, the one that
\* follows a successful fetch and answers 200, and that step puts every
\* fetched record. An exhausted fetch is answered with 502 and a failed
\* batch write with 500, the table as it was; 200 is answered only after
\* a fetch that returned records and a write that stored them.
C33_UpdateJob ==
    [][\A p \in UpdateProcs :
          /\ prices' # prices =>
                pc[p] = "fetch_return" /\ FetchSucceeded(p)
                   /\ response'[p].statusCode = 200
          /\ (pc[p] = "fetch_return" /\ pc'[p] = "done") =>
                /\ FetchFailed(p) =>
                      response'[p].statusCode = 502 /\ prices' = prices
                /\ FetchSucceeded(p) =>
                      \/ /\ response'[p].statusCode = 200
                         /\ \A r \in Fetched(p) :
                               prices'[r.symbol] = CryptoPrice_to_dynamodb_item(r, 3600, now)
                         /\ \A sym \in Symbols :
                               (\A r \in Fetched(p) : r.symbol # sym)
                               => prices'[sym] = prices[sym]
                      \/ /\ response'[p].statusCode = 500
                         /\ prices' = prices
                /\ response'[p].statusCode = 200 => FetchSucceeded(p)
                /\ (~FetchFailed(p) /\ ~FetchSucceeded(p)) =>
                      response'[p].statusCode = 500 /\ prices' = prices]_vars

\* A run that ended in 502 after four attempts, the items of the start
\* still in the table, following a run that ended in 500.
C33_Witness ==
    \E p \in UpdateProcs :
        /\ pc[p] = "done"
        /\ response[p].statusCode = 502
        /\ Len(AttemptsOf(events[p])) = MAX_RETRIES + 1
        /\ requests = 2
        /\ \E sym \in Symbols : prices[sym] # None /\ prices[sym].price = 50
        /\ \A sym \in Symbols : prices[sym] # None => prices[sym].price = 50

(***************************************************************************)
(* The writers of the price items side by side                             *)
(***************************************************************************)
\* One API request and the scheduled job, their steps interleaved, the
\* provider and the store answering every call.
WritersResponses ==
    { r \in RequestResponses : r.kind = "json" }

WritersNext ==
    \/ \E p \in ApiProcs, requested \in {<<"BTC">>, <<"ETH", "BTC">>} :
          lambda_handler(p, requested)
    \/ \E p \in ApiProcs : handler_get_cache_status(p, TRUE)
    \/ \E p \in ApiProcs : handler_get_fresh(p, TRUE)
    \/ \E p \in ApiProcs \cup UpdateProcs, resp \in WritersResponses : fetch_attempt(p, resp)
    \/ \E p \in ApiProcs : handler_cache_new_data(p, TRUE)
    \/ \E p \in UpdateProcs : update_lambda_handler(p)
    \/ \E p \in UpdateProcs : update_save_prices(p, TRUE)
    \/ Tick(60)

SpecWriters == InitApi /\ [][WritersNext]_vars

\* C34: no step of any writer replaces the item of a symbol by one whose
\* last update is earlier.
C34_LastUpdatedNeverDecreases ==
    [][\A sym \in Symbols :
          (prices[sym] # None /\ prices'[sym] # None)
          => LastUpdatedAt(prices'[sym]) >= LastUpdatedAt(prices[sym])]_vars


\* C35: every symbol that the classification of a request found fresh is
\* in the body of the request's successful response.
C35_ClassifiedFreshIsServed ==
    \A p \in ApiProcs :
        (pc[p] = "done" /\ response[p].statusCode = 200)
        => \A sym \in Range(symbols[p]) :
              cache_status[p][sym].is_fresh => sym \in BodySymbols(p)


\* The puts of the counter that the request has made.
SaveCalls(p) == Len(SelectSeq(calls[p], LAMBDA c : c = "save_rate_limit"))

\* The step that answers a price request (the health check reads
\* get_price_data and is not one).
Answers(p) ==
    /\ response[p] = None /\ response'[p] # None
    /\ "get_price_data" \notin Range(calls'[p])

\* C36: a counter changes only in the put of an admission, which raises
\* the counter of the request's credential and window by one and no other;
\* a request answered with anything but an admission failure (401, 429),
\* be it a validation error (400), an upstream error (503) or a success,
\* was admitted and leaves the counter at the count it read plus one; a
\* request answered 401 or 429 has made no put.
C36_AdmissionCountsBeforeValidation ==
    [][\A p \in ApiProcs :
          /\ rate_limits' # rate_limits =>
                /\ pc[p] = "save_rate_limit"
                /\ api_keys[rate_limit_data[p].api_key].enabled
                /\ \A k \in KeyIds, m \in Minutes :
                      IF k = rate_limit_data[p].api_key /\ m = rate_limit_data[p].minute
                      THEN /\ StoredCount(k, m) < rate_limit_per_minute
                           /\ rate_limits'[k][m].requestCount = StoredCount(k, m) + 1
                      ELSE rate_limits'[k][m] = rate_limits[k][m]
          /\ Answers(p) =>
                IF response'[p].statusCode \in {401, 429}
                THEN SaveCalls(p)' = 0 /\ Rejected(p)'
                ELSE /\ outcome'[p] = Admitted
                     /\ StoredCount(rate_limit_data[p].api_key, rate_limit_data[p].minute)
                           = read_count[p] + 1]_vars

\* A second request of the window, answered 400 with the counter at 2.
C36_Witness ==
    \E p \in ApiProcs :
        /\ pc[p] = "done"
        /\ response[p] # None
        /\ response[p].statusCode = 400
        /\ outcome[p] = Admitted
        /\ read_count[p] = 1
        /\ StoredCount(rate_limit_data[p].api_key, rate_limit_data[p].minute) = 2


\* The step is a read of check_rate_limit that failed: the counter of the
\* call's credential and window is stored and the call read none.
FailedCounterRead(p) ==
    /\ pc[p] = "check_rate_limit" /\ pc'[p] # "check_rate_limit"
    /\ rate_limits[api_key_data[p].key_id][current_minute(now)] # None
    /\ read_count'[p] = 0

\* C37: a read of the counter that fails has the effect of a read that
\* finds none: whatever count is stored, the limit included, the call is
\* not rejected and goes on to put the counter of its credential and
\* window with count 1 and the expiry of a new counter; the put, when it
\* lands, leaves that counter at 1, and the call is admitted.
C37_FailedReadStartsAgain ==
    [][\A p \in Procs :
          /\ FailedCounterRead(p) =>
                /\ pc'[p] = "save_rate_limit"
                /\ outcome'[p] = Pending
                /\ rate_limit_data'[p] =
                      [api_key |-> api_key_data[p].key_id,
                       minute |-> current_minute(now),
                       request_count |-> 1,
                       ttl |-> now + 3600]
                /\ rate_limits' = rate_limits
          /\ (pc[p] = "save_rate_limit" /\ pc'[p] = "done" /\ read_count[p] = 0) =>
                /\ outcome'[p] = Admitted
                /\ rate_limits' # rate_limits =>
                      rate_limits'[rate_limit_data[p].api_key][rate_limit_data[p].minute]
                         .requestCount = 1]_vars

\* The only call that ever ran is past its read with nothing read while
\* the counter of its window stands at the limit.
C37_Witness ==
    \E p \in Procs :
        /\ pc[p] = "save_rate_limit"
        /\ read_count[p] = 0
        /\ rate_limit_data[p].request_count = 1
        /\ StoredCount(rate_limit_data[p].api_key, rate_limit_data[p].minute)
              = rate_limit_per_minute
        /\ \A q \in Procs \ {p} : pc[q] = "idle"


\* C38: the price items change in one step only, the write-through of a
\* fetch that returned records; every step of a request whose fetch has
\* failed, the fallback read and the answer included, leaves every item
\* as it was, expiry included, and such a request ends without a call of
\* save_multiple_price_data.
C38_FailedFetchWritesNothing ==
    [][\A p \in ApiProcs :
          /\ prices' # prices => pc[p] = "fetch_return" /\ FetchSucceeded(p)
          /\ (FetchFailed(p) \/ FetchFailed(p)') =>
                /\ prices' = prices
                /\ WriteCalls(p)' = 0
          /\ (pc[p] = "fetch_return" /\ FetchFailed(p)) =>
                /\ pc'[p] = "done" => response'[p].statusCode \in {200, 503}
                /\ \A i \in DOMAIN price_data_list'[p] :
                      LET r == price_data_list'[p][i]
                      IN r.symbol \in Range(stale_symbols[p])
                         => /\ prices'[r.symbol] = prices[r.symbol]
                            /\ r.last_updated = LastUpdatedAt(prices'[r.symbol])]_vars

\* A request answered from the stale fallback over a minute after the start:
\* the item it served still has the expiry of its write, an hour after its
\* last update.
C38_Witness ==
    \E p \in ApiProcs :
        /\ pc[p] = "done"
        /\ FetchFailed(p)
        /\ response[p].statusCode = 200
        /\ now > 60
        /\ \E sym \in Range(stale_symbols[p]) :
              /\ sym \in BodySymbols(p)
              /\ prices[sym] # None
              /\ prices[sym].ttl = LastUpdatedAt(prices[sym]) + 3600
              /\ LastUpdatedAt(prices[sym]) = -300

(***************************************************************************)
(* A request and the request that follows it                               *)
(***************************************************************************)
FirstProc == "p1"
FollowingProc == "p2"

\* The second request enters once the first is answered.
following_request(p, requested) ==
    /\ pc[FirstProc] = "done"
    /\ lambda_handler(p, requested)

\* Two requests one after the other, the store answering every call.
FollowNext ==
    \/ \E requested \in {<<"BTC">>, <<"ETH", "BTC">>} : lambda_handler(FirstProc, requested)
    \/ \E requested \in {<<"BTC">>, <<"ETH", "BTC">>, <<"BTC", "ETH">>} :
          following_request(FollowingProc, requested)
    \/ \E p \in Procs : handler_get_cache_status(p, TRUE)
    \/ \E p \in Procs : handler_get_fresh(p, TRUE)
    \/ \E p \in Procs, resp \in UpdateResponses : fetch_attempt(p, resp)
    \/ \E p \in Procs : fetch_backoff(p)
    \/ \E p \in Procs : handler_cache_new_data(p, TRUE)
    \/ \E p \in Procs : handler_fallback(p, TRUE)
    \/ \E p \in Procs : handler_unexpected_error(p)
    \/ Tick(60)

SpecFollow == InitApi /\ [][FollowNext]_vars

\* The step is the classification of the following request, for the
\* symbols of a first request that fetched and wrote through, taken
\* before the threshold has elapsed since that fetch.
FollowsRefresh ==
    /\ pc[FirstProc] = "done"
    /\ FetchSucceeded(FirstProc)
    /\ response[FirstProc].statusCode = 200
    /\ pc[FollowingProc] = "get_cache_status"
    /\ pc'[FollowingProc] # "get_cache_status"
    /\ Range(symbols[FollowingProc]) = Range(symbols[FirstProc])
    /\ \A r \in Fetched(FirstProc) :
          now - r.last_updated < CACHE_THRESHOLD_MINUTES * 60

\* The symbols the first request's fetch returned.
Refreshed == { r.symbol : r \in Fetched(FirstProc) }

\* C39 as stated: the following request classifies every refreshed symbol
\* fresh and has no symbol left for the fetcher.
C39_FollowerMakesNoFetch ==
    [][FollowsRefresh =>
          /\ \A sym \in Refreshed : cache_status'[FollowingProc][sym].is_fresh
          /\ stale_symbols'[FollowingProc] = <<>>
          /\ pc'[FollowingProc] # "fetch_attempt"]_vars

\* C39, amended: the following request classifies every refreshed symbol
\* fresh, with the observation time of the first request's fetch, and hands
\* none of them to the fetcher; when the first fetch returned every
\* requested symbol it has no symbol left to fetch and goes on to read the
\* fresh records.
C39_FollowerKeepsRefreshed ==
    [][FollowsRefresh =>
          /\ \A r \in Fetched(FirstProc) :
                /\ cache_status'[FollowingProc][r.symbol].is_fresh
                /\ cache_status'[FollowingProc][r.symbol].last_updated = Some(r.last_updated)
                /\ r.symbol \in Range(fresh_symbols'[FollowingProc])
                /\ r.symbol \notin Range(stale_symbols'[FollowingProc])
          /\ Refreshed = Range(symbols[FirstProc]) =>
                /\ stale_symbols'[FollowingProc] = <<>>
                /\ pc'[FollowingProc] = "get_fresh"
                /\ FetchCalls(FollowingProc)' = 0
                /\ events'[FollowingProc] = <<>>]_vars

\* The following request answered from the store, over a minute after
\* the first one fetched both symbols, without an upstream call.
C39_Witness ==
    /\ pc[FirstProc] = "done"
    /\ FetchSucceeded(FirstProc)
    /\ Refreshed = {"BTC", "ETH"}
    /\ pc[FollowingProc] = "done"
    /\ symbols[FollowingProc] = <<"BTC", "ETH">>
    /\ fresh_symbols[FollowingProc] = <<"BTC", "ETH">>
    /\ stale_symbols[FollowingProc] = <<>>
    /\ FetchCalls(FollowingProc) = 0
    /\ events[FollowingProc] = <<>>
    /\ response[FollowingProc].statusCode = 200
    /\ BodySymbols(FollowingProc) = {"BTC", "ETH"}
    /\ \A sym \in {"BTC", "ETH"} : now - LastUpdatedAt(prices[sym]) >= 60
====
